---- MODULE Spec2Model ----
(***************************************************************************)
(* Real-time chat subsystem of the travel platform backend:                *)
(*   ChatSocket  (sockets/chatSocket.js,   src/unnamed/part_000:1-397)     *)
(*   ChatService (services/chatService.js, src/unnamed/part_000:399-919)   *)
(*   Message     (models/messageModel.js,  src/unnamed/part_001:1-151)     *)
(*   redisClient (utils/redisClient.js,    chatController.js:554-700)      *)
(*   ChatController.sendMessage            (chatController.js:486-549)     *)
(*                                                                         *)
(* Strings that the code takes apart (room ids, message contents, cache    *)
(* keys, channel names) are sequences of one-character strings.            *)
(***************************************************************************)
EXTENDS Integers, Sequences, FiniteSets, TLC

None == "none"
\* a number that is not a number, and a decimal number m * 10^-e
NaN == [nan |-> TRUE, m |-> 0, e |-> 0]

\* ------------------------------------------------------------------------
\* String helpers (String.prototype.startsWith / replace / split / trim)
\* ------------------------------------------------------------------------
Digits == {"0", "1", "2", "3", "4", "5", "6", "7", "8", "9"}
HexChars == Digits \cup {"a", "b", "c", "d", "e", "f"}

DigitVal(c) ==
  CASE c = "0" -> 0 [] c = "1" -> 1 [] c = "2" -> 2 [] c = "3" -> 3
    [] c = "4" -> 4 [] c = "5" -> 5 [] c = "6" -> 6 [] c = "7" -> 7
    [] c = "8" -> 8 [] c = "9" -> 9

StartsWith(s, p) == Len(s) >= Len(p) /\ SubSeq(s, 1, Len(p)) = p

\* position of the first occurrence of p in s, 0 when there is none
IndexOf(s, p) ==
  LET hits == {i \in 1..(Len(s) + 1) :
                 i + Len(p) - 1 <= Len(s) /\ SubSeq(s, i, i + Len(p) - 1) = p}
  IN IF hits = {} THEN 0 ELSE CHOOSE i \in hits : \A j \in hits : i <= j

\* s.replace(p, r) with a string pattern: only the first occurrence
ReplaceFirst(s, p, r) ==
  LET i == IndexOf(s, p)
  IN IF i = 0 THEN s
     ELSE SubSeq(s, 1, i - 1) \o r \o SubSeq(s, i + Len(p), Len(s))

\* s.split(sep) for a one-character separator: always at least one field
RECURSIVE Split(_, _)
Split(s, sep) ==
  LET i == IndexOf(s, <<sep>>)
  IN IF i = 0 THEN <<s>>
     ELSE <<SubSeq(s, 1, i - 1)>> \o Split(SubSeq(s, i + 1, Len(s)), sep)

\* length of the longest prefix of s made of characters of cs
RECURSIVE Run(_, _)
Run(s, cs) ==
  IF s = <<>> \/ Head(s) \notin cs THEN 0 ELSE 1 + Run(Tail(s), cs)

Drop(s, n) == SubSeq(s, n + 1, Len(s))

RECURSIVE DigitsVal(_)
DigitsVal(s) ==
  IF s = <<>> THEN 0
  ELSE 10 * DigitsVal(SubSeq(s, 1, Len(s) - 1)) + DigitVal(s[Len(s)])

RECURSIVE Pow10(_)
Pow10(n) == IF n = 0 THEN 1 ELSE 10 * Pow10(n - 1)

\* a decimal number m * 10^-e in lowest form (no trailing zero digit)
RECURSIVE Decimal(_, _)
Decimal(m, e) ==
  IF e > 0 /\ m % 10 = 0 THEN Decimal(m \div 10, e - 1)
  ELSE [nan |-> FALSE, m |-> m, e |-> e]

\* parseFloat: optional sign, digits, optional fraction; the longest prefix
\* that is a decimal literal, NaN when there is none.
\* Exponents and Infinity are not read: no model input has them.
ParseFloat(s) ==
    LET t    == Drop(s, Run(s, {" "}))
        neg  == t # <<>> /\ Head(t) = "-"
        u    == IF t # <<>> /\ Head(t) \in {"-", "+"} THEN Tail(t) ELSE t
        ni   == Run(u, Digits)
        v    == Drop(u, ni)
        nf   == IF v # <<>> /\ Head(v) = "." THEN Run(Tail(v), Digits) ELSE 0
        ip   == SubSeq(u, 1, ni)
        fp   == IF nf = 0 THEN <<>> ELSE SubSeq(v, 2, nf + 1)
        mag  == DigitsVal(ip) * Pow10(nf) + DigitsVal(fp)
    IN IF ni = 0 /\ nf = 0 THEN NaN
       ELSE Decimal(IF neg THEN 0 - mag ELSE mag, nf)

\* n copies of the character c
Rep(c, n) == [i \in 1..n |-> c]

\* template-literal rendering of a small non-negative integer
RECURSIVE ToStr(_)
ToStr(n) ==
  LET d == <<"0", "1", "2", "3", "4", "5", "6", "7", "8", "9">>
  IN IF n < 10 THEN <<d[n + 1]>> ELSE ToStr(n \div 10) \o <<d[(n % 10) + 1]>>

\* ------------------------------------------------------------------------
\* Room ids and room category derivation
\* ------------------------------------------------------------------------
JourneyPrefix == <<"j", "o", "u", "r", "n", "e", "y", "_">>
LocationPrefix == <<"l", "o", "c", "a", "t", "i", "o", "n", "_">>
QaPrefix == <<"q", "a", "_">>

\* ChatSocket.determineChatType
determineChatType_SwappedOrder(roomId) ==
  IF StartsWith(roomId, JourneyPrefix) THEN "group_planning"
  ELSE IF StartsWith(roomId, QaPrefix) THEN "location_chat"
  ELSE IF StartsWith(roomId, LocationPrefix) THEN "qa_chat"
  ELSE "direct"

determineChatType(roomId) ==
  IF StartsWith(roomId, JourneyPrefix) THEN "group_planning"
  ELSE IF StartsWith(roomId, LocationPrefix) THEN "location_chat"
  ELSE IF StartsWith(roomId, QaPrefix) THEN "qa_chat"
  ELSE "direct"

\* ChatSocket.extractJourneyId
extractJourneyId(roomId) == ReplaceFirst(roomId, JourneyPrefix, <<>>)

\* ChatSocket.extractLocationData
extractLocationData(roomId) ==
  LET coords == Split(ReplaceFirst(roomId, LocationPrefix, <<>>), "_")
  IN [latitude  |-> ParseFloat(coords[1]),
      \* coords[1] is undefined for a single field: parseFloat gives NaN
      longitude |-> IF Len(coords) >= 2 THEN ParseFloat(coords[2]) ELSE NaN]

\* ChatController.sendMessage: let chatType = 'direct' and the else-if chain
httpChatType(roomId) ==
  LET t0 == "direct"
  IN IF StartsWith(roomId, JourneyPrefix) THEN "group_planning"
     ELSE IF StartsWith(roomId, LocationPrefix) THEN "location_chat"
     ELSE IF StartsWith(roomId, QaPrefix) THEN "qa_chat"
     ELSE t0

\* ------------------------------------------------------------------------
\* Message contents: run-length encoded strings, <<[c |-> "a", n |-> 1000]>>
\* is a thousand a's.  Adjacent runs hold different characters.
\* ------------------------------------------------------------------------
MaxContentLength == 1000

RunOf(c, n) == <<[c |-> c, n |-> n]>>

RECURSIVE CLen(_)
CLen(s) == IF s = <<>> THEN 0 ELSE Head(s).n + CLen(Tail(s))

RECURSIVE DropSpaces(_)
DropSpaces(s) ==
  IF s # <<>> /\ Head(s).c = " " THEN DropSpaces(Tail(s)) ELSE s

Reverse(s) == [i \in 1..Len(s) |-> s[Len(s) + 1 - i]]

\* String.prototype.trim on a content
CTrim(s) == Reverse(DropSpaces(Reverse(DropSpaces(s))))

RECURSIVE Word(_)
Word(cs) == IF cs = <<>> THEN <<>> ELSE RunOf(Head(cs), 1) \o Word(Tail(cs))

\* 'This message has been deleted'
Tombstone ==
  Word(<<"T", "h", "i", "s", " ", "m", "e">>) \o RunOf("s", 2)
    \o Word(<<"a", "g", "e", " ", "h", "a", "s", " ", "b">>) \o RunOf("e", 2)
    \o Word(<<"n", " ", "d", "e", "l", "e", "t", "e", "d">>)

Empty == <<>>
Blank == RunOf(" ", 1)
TextA == RunOf("a", 1)
TextB == RunOf("b", 1)
PaddedA == RunOf(" ", 1) \o RunOf("a", 1)
TooLong == RunOf("a", MaxContentLength + 1)
PaddedLong == RunOf(" ", 1) \o RunOf("a", MaxContentLength)

\* ------------------------------------------------------------------------
\* Identifiers
\* ------------------------------------------------------------------------
ObjectIdLength == 24

\* the hex string a Mongo ObjectId casts from
IsObjectId(s) == Len(s) = ObjectIdLength /\ \A i \in 1..Len(s) : s[i] \in HexChars

U1 == Rep("a", ObjectIdLength)
U2 == Rep("b", ObjectIdLength)
U3 == Rep("c", ObjectIdLength)
J1 == Rep("1", ObjectIdLength)

\* the Journey collection: creator of each journey
journeyCreator == [j \in {J1} |-> U1]

JourneyRoom(j) == JourneyPrefix \o j
QaRoom(j, asker) == QaPrefix \o j \o <<"_">> \o asker
StarRoom == <<"*">>

Instances == {"A", "B"}

\* ------------------------------------------------------------------------
\* State
\* ------------------------------------------------------------------------
VARIABLES
  conns,          \* connection id -> handshake outcome, user, instance
  connectedUsers, \* per instance: ChatSocket.connectedUsers (userId -> socket)
  rooms,          \* connection id -> set of socket.io rooms it has joined
  inbox,          \* connection id -> server events delivered to the client
  store,          \* the messages collection, _id = position
  cache,          \* redis keys -> cached JSON value
  client,         \* per instance: the redis client ("none": client is null)
  published,      \* everything handed to redis PUBLISH, in order
  subq,           \* per instance: events received by its subscriber, unhandled
  pending,        \* handlers and service calls suspended at an await
  clock,          \* Date source
  ops,            \* number of requests accepted so far
  last,           \* outcomes of the two most recent direct service calls
  probe,          \* room id under derivation and the derived values
  proc            \* per instance: the server process (running, closing, exited)

vars == <<conns, connectedUsers, rooms, inbox, store, cache, client,
          published, subq, pending, clock, ops, last, probe, proc>>

MaxConns == 2
MaxMsgs == 2

Conn == 1..MaxConns

MessageTypes == {"text", "image", "file", "location", "system"}
ChatTypes == {"group_planning", "location_chat", "qa_chat", "direct"}

RemoveAt(s, i) == SubSeq(s, 1, i - 1) \o SubSeq(s, i + 1, Len(s))

\* ------------------------------------------------------------------------
\* redisClient: cache and pub/sub utilities
\* ------------------------------------------------------------------------
Colon == <<":">>
ChatHistoryPrefix ==
  <<"c", "h", "a", "t", "_", "h", "i", "s", "t", "o", "r", "y", ":">>
ChatChannelPrefix == <<"c", "h", "a", "t", ":">>

\* `chat_history:${chatRoom}:${page}:${limit}`
HistoryKey(chatRoom, page, limit) ==
  ChatHistoryPrefix \o chatRoom \o Colon \o ToStr(page) \o Colon \o ToStr(limit)

\* `chat_history:${chatRoom}*`
InvalidateKey(chatRoom) == ChatHistoryPrefix \o chatRoom \o <<"*">>

\* `chat:${chatRoom}`
ChatChannel(chatRoom) == ChatChannelPrefix \o chatRoom

\* the channel ChatSocket.setupRedisSubscriptions subscribes to
SubscribedChannel == ChatChannelPrefix \o <<"*">>

\* the redis client of an instance: null ("none": createRedisClient returned
\* null), connected to a server that answers ("up"), connected to a server
\* that answers some calls and fails others ("flaky"), or left with a
\* connection on which every call fails ("failing")
AllClients(st) == [i \in Instances |-> st]

\* outcomes of one redis call on instance i: FALSE when client is null or the
\* call throws (every utility catches and reports failure)
RedisOutcomes(i) ==
  CASE client[i] = "up"    -> {TRUE}
    [] client[i] = "flaky" -> {TRUE, FALSE}
    [] OTHER               -> {FALSE}

\* getCache: the parsed value, or null (<<>>)
getCache_IgnoreFailure(ok, key) ==
  IF key \in DOMAIN cache THEN <<cache[key]>> ELSE <<>>

getCache(ok, key) ==
  IF ok /\ key \in DOMAIN cache THEN <<cache[key]>> ELSE <<>>

\* setCache: client.setEx(key, ttl, JSON.stringify(value))
setCache(ok, key, value) ==
  IF ok THEN [k \in DOMAIN cache \cup {key} |-> IF k = key THEN value ELSE cache[k]]
  ELSE cache

\* deleteCache: client.del(key) removes the key of exactly that name
deleteCache(ok, key) ==
  IF ok THEN [k \in DOMAIN cache \ {key} |-> cache[k]] ELSE cache

\* client.subscribe(channel, ...) is an exact-name subscription
Subscribers(channel) ==
  {i \in Instances : /\ proc[i] # "exited"
                     /\ client[i] \in {"up", "flaky"}
                     /\ channel = SubscribedChannel}

publishMessage_Twice(ok, channel, message) ==
  /\ published' = IF ok THEN published \o <<[channel |-> channel, message |-> message],
                                          [channel |-> channel, message |-> message]>>
                  ELSE published
  /\ subq' = [i \in Instances |->
                IF ok /\ i \in Subscribers(channel)
                THEN Append(subq[i], message) ELSE subq[i]]

\* publishMessage: client.publish(channel, JSON.stringify(message)); redis
\* hands the message to every subscriber of that channel
publishMessage(ok, channel, message) ==
  /\ published' = IF ok THEN Append(published, [channel |-> channel, message |-> message])
                  ELSE published
  /\ subq' = [i \in Instances |->
                IF ok /\ i \in Subscribers(channel)
                THEN Append(subq[i], message) ELSE subq[i]]

\* ------------------------------------------------------------------------
\* Message documents (messageSchema)
\* ------------------------------------------------------------------------
NoDate == [t |-> 0, iso |-> FALSE]
DateAt(t) == [t |-> t, iso |-> FALSE]

\* new Message(messageData): schema defaults for what messageData leaves out
NewMessage(data) ==
  [sender          |-> data.sender,
   content         |-> data.content,
   messageType     |-> data.messageType,
   chatRoom        |-> data.chatRoom,
   chatType        |-> data.chatType,
   journeyId       |-> data.journeyId,
   location        |-> data.location,
   parentMessage   |-> data.parentMessage,
   readBy          |-> <<>>,
   reactions       |-> <<>>,
   editedAt        |-> NoDate,
   originalContent |-> <<>>,
   isDeleted       |-> FALSE,
   deletedAt       |-> NoDate,
   v               |-> 0]

\* messageSchema.content: required (a string of length 0 fails) and maxlength
ContentValid_NoMaxLength(content) == CLen(content) > 0

ContentValid(content) == CLen(content) > 0 /\ CLen(content) <= MaxContentLength

\* schema validation and casting run by save()
SchemaValid(d) ==
  /\ IsObjectId(d.sender)
  /\ ContentValid(d.content)
  /\ d.messageType \in MessageTypes
  /\ d.chatRoom # <<>>
  /\ d.chatType \in ChatTypes
  /\ d.journeyId # <<>> => IsObjectId(d.journeyId[1])
  /\ d.location # <<>> => ~d.location[1].latitude.nan /\ ~d.location[1].longitude.nan

\* JSON.stringify then JSON.parse of a document: dates come back as strings
JsonDate(x) == [t |-> x.t, iso |-> (x.t # 0)]

Json(d) == [d EXCEPT !.editedAt = JsonDate(@), !.deletedAt = JsonDate(@)]

ReadByUsers(d) == {d.readBy[k].user : k \in 1..Len(d.readBy)}

\* ------------------------------------------------------------------------
\* Client events and suspended calls
\* ------------------------------------------------------------------------
Event(type, text, room, msg, user, body) ==
  [type |-> type, text |-> text, room |-> room, msg |-> msg, user |-> user,
   body |-> body]

Connected(c) == conns[c].status = "connected"

\* the sockets of instance i that are in room ch of its adapter
InRoom_AnyInstance(i, ch) == {c \in Conn : Connected(c) /\ ch \in rooms[c]}

InRoom(i, ch) == {c \in Conn : Connected(c) /\ conns[c].inst = i /\ ch \in rooms[c]}

\* socket.emit reaches the client only while the socket is connected
Self_Nobody(c) == {}

Self(c) == IF c \in Conn /\ Connected(c) THEN {c} ELSE {}

Deliver_Prepend(targets, ev) ==
  inbox' = [c \in Conn |-> IF c \in targets THEN <<ev>> \o inbox[c] ELSE inbox[c]]

Deliver(targets, ev) ==
  inbox' = [c \in Conn |-> IF c \in targets THEN Append(inbox[c], ev) ELSE inbox[c]]

Op0 ==
  [kind |-> "", handler |-> None, stage |-> "", inst |-> "A", conn |-> 0,
   user |-> <<>>, room |-> <<>>, msg |-> 0, content |-> <<>>, emoji |-> "",
   ids |-> {}, page |-> 0, limit |-> 0, data |-> <<>>, doc |-> <<>>,
   mod |-> {}, out |-> <<>>]

\* the caller-visible outcome of a direct service call
Outcome(op, ok, err, value) ==
  [kind |-> op.kind, user |-> op.user, room |-> op.room, msg |-> op.msg,
   ids |-> op.ids, page |-> op.page, limit |-> op.limit, content |-> op.content,
   emoji |-> op.emoji, ok |-> ok, err |-> err, value |-> value]

NoOutcome == Outcome(Op0, FALSE, "", <<>>)

\* the newest outcome first, the one before it second
Remember(o) == <<o, last[1]>>

\* the text each handler's catch block sends to its own socket
HandlerError(h) ==
  CASE h = "join_room"       -> "Failed to join chat room"
    [] h = "send_message"    -> "Failed to send message"
    [] h = "add_reaction"    -> "Failed to add reaction"
    [] h = "remove_reaction" -> "Failed to remove reaction"
    [] h = "edit_message"    -> "Failed to edit message"
    [] h = "delete_message"  -> "Failed to delete message"
    [] OTHER                 -> ""

\* the service call of pending[i] throws err: a direct caller sees the error;
\* a socket handler's catch logs it and tells its own socket, except the
\* mark_messages_read handler, which only logs
Throw(i, err) ==
  LET op == pending[i]
  IN /\ pending' = RemoveAt(pending, i)
     /\ IF op.handler = None
        THEN last' = Remember(Outcome(op, FALSE, err, <<>>)) /\ UNCHANGED inbox
        ELSE /\ last' = last
             /\ IF op.handler = "mark_messages_read" THEN UNCHANGED inbox
                ELSE Deliver(Self(op.conn),
                             Event("error", HandlerError(op.handler), <<>>, 0, <<>>, <<>>))

Advance(i, op) == pending' = [pending EXCEPT ![i] = op]

\* a request is taken while the budget allows it; one that suspends at an
\* await also needs a free slot among the suspended calls
CanHandle(lim) == ops < lim.ops
CanBegin(lim) == CanHandle(lim) /\ Len(pending) < lim.pending

Begin(op) == pending' = Append(pending, op) /\ ops' = ops + 1

Saving == {k \in 1..Len(pending) : pending[k].kind = "saveMessage" /\ pending[k].stage = "save"}

\* ------------------------------------------------------------------------
\* ChatService.saveMessage
\* ------------------------------------------------------------------------
\* message.save(): validation or storage failure propagates to the caller
SaveMessage_save(i) ==
  LET op == pending[i]
      m  == NewMessage(op.data[1])
  IN /\ op.kind = "saveMessage" /\ op.stage = "save"
     /\ \E storeOk \in BOOLEAN :
          IF storeOk /\ SchemaValid(m)
          THEN /\ store' = Append(store, m)
               /\ Advance(i, [op EXCEPT !.stage = "publish", !.msg = Len(store) + 1])
               /\ UNCHANGED <<inbox, last>>
          ELSE /\ Throw(i, "storage")
               /\ UNCHANGED store
     /\ UNCHANGED <<conns, connectedUsers, rooms, cache, client, published,
                    subq, clock, ops, probe, proc>>

\* message.populate(...) then publishMessage(`chat:${chatRoom}`, new_message)
SaveMessage_publish(i) ==
  LET op == pending[i]
  IN /\ op.kind = "saveMessage" /\ op.stage = "publish"
     /\ \E populateOk \in BOOLEAN, ok \in RedisOutcomes(op.inst) :
          IF populateOk
          THEN /\ publishMessage(ok, ChatChannel(op.room),
                                 [type |-> "new_message", hasMessage |-> TRUE,
                                  room |-> op.room, messageId |-> op.msg,
                                  userId |-> <<>>])
               /\ Advance(i, [op EXCEPT !.stage = "return"])
               /\ UNCHANGED <<inbox, last>>
          ELSE /\ Throw(i, "storage")
               /\ UNCHANGED <<published, subq>>
     /\ UNCHANGED <<conns, connectedUsers, rooms, store, cache, client, clock,
                    ops, probe, proc>>

\* ------------------------------------------------------------------------
\* ChatService.getChatHistory
\* ------------------------------------------------------------------------
Min(a, b) == IF a < b THEN a ELSE b

Ids == [k \in 1..Len(store) |-> k]

\* Message.find({chatRoom, isDeleted: false}), oldest first
Visible(chatRoom) ==
  SelectSeq(Ids, LAMBDA k : store[k].chatRoom = chatRoom /\ ~store[k].isDeleted)

\* .sort({createdAt: -1}).skip(skip).limit(limit), then messages.reverse()
PageOf(chatRoom, page, limit) ==
  LET desc == Reverse(Visible(chatRoom))
      skip == (page - 1) * limit
  IN Reverse(SubSeq(desc, skip + 1, Min(skip + limit, Len(desc))))

Snapshot(k) == [id |-> k, doc |-> store[k]]

CeilDiv(a, b) == (a + b - 1) \div b

Pagination(page, limit, total) ==
  [currentPage   |-> page,
   totalPages    |-> CeilDiv(total, limit),
   totalMessages |-> total,
   hasNext       |-> page < CeilDiv(total, limit),
   hasPrev       |-> page > 1]

\* getCache(cacheKey): a hit is returned as it is
GetChatHistory_cacheGet(i) ==
  LET op == pending[i]
  IN /\ op.kind = "getChatHistory" /\ op.stage = "cacheGet"
     /\ \E ok \in RedisOutcomes(op.inst) :
          LET hit == getCache(ok, HistoryKey(op.room, op.page, op.limit))
          IN IF hit # <<>>
             THEN Advance(i, [op EXCEPT !.stage = "return", !.out = hit])
             ELSE Advance(i, [op EXCEPT !.stage = "find"])
     /\ UNCHANGED <<conns, connectedUsers, rooms, inbox, store, cache, client,
                    published, subq, clock, ops, last, probe, proc>>

\* Message.find(...).populate(...).sort(...).skip(...).limit(...), then
\* Message.countDocuments({chatRoom, isDeleted: false}) and the result object
GetChatHistory_find(i) ==
  LET op == pending[i]
      page == PageOf(op.room, op.page, op.limit)
      total == Len(Visible(op.room))
  IN /\ op.kind = "getChatHistory" /\ op.stage = "find"
     /\ \E storeOk \in BOOLEAN :
          IF storeOk
          THEN /\ Advance(i, [op EXCEPT !.stage = "cacheSet",
                                !.out = <<[messages |-> [k \in 1..Len(page) |-> Snapshot(page[k])],
                                           pagination |-> Pagination(op.page, op.limit, total)]>>])
               /\ UNCHANGED <<inbox, last>>
          ELSE Throw(i, "storage")
     /\ UNCHANGED <<conns, connectedUsers, rooms, store, cache, client,
                    published, subq, clock, ops, probe, proc>>

JsonResult(r) ==
  [r EXCEPT !.messages = [k \in 1..Len(r.messages) |->
                            [r.messages[k] EXCEPT !.doc = Json(@)]]]

\* setCache(cacheKey, result, 300)
GetChatHistory_cacheSet(i) ==
  LET op == pending[i]
  IN /\ op.kind = "getChatHistory" /\ op.stage = "cacheSet"
     /\ \E ok \in RedisOutcomes(op.inst) :
          cache' = setCache(ok, HistoryKey(op.room, op.page, op.limit),
                            JsonResult(op.out[1]))
     /\ Advance(i, [op EXCEPT !.stage = "return"])
     /\ UNCHANGED <<conns, connectedUsers, rooms, inbox, store, client,
                    published, subq, clock, ops, last, probe, proc>>

\* the 300 second expiry of a cached history
CacheExpire(key) ==
  /\ key \in DOMAIN cache
  /\ cache' = [k \in DOMAIN cache \ {key} |-> cache[k]]
  /\ UNCHANGED <<conns, connectedUsers, rooms, inbox, store, client,
                 published, subq, pending, clock, ops, last, probe, proc>>

\* ------------------------------------------------------------------------
\* ChatService.editMessage / deleteMessage / addReaction / removeReaction:
\* findById, change the loaded document, save, deleteCache, publishMessage
\* ------------------------------------------------------------------------
Exists(id) == id \in 1..Len(store)

\* !message.originalContent
NoOriginal(d) == d.originalContent = <<>> \/ d.originalContent[1] = <<>>

editMessage_change_Overwrite(d, newContent, now) ==
  [d EXCEPT !.originalContent = <<d.content>>,
            !.content = newContent,
            !.editedAt = DateAt(now)]

editMessage_change(d, newContent, now) ==
  [d EXCEPT !.originalContent = IF NoOriginal(d) THEN <<d.content>> ELSE @,
            !.content = newContent,
            !.editedAt = DateAt(now)]

\* message.sender.toString() !== userId
NotSender_Never(d, userId) == FALSE

NotSender(d, userId) == d.sender # userId

EditMessage_find(i) ==
  LET op == pending[i]
  IN /\ op.kind = "editMessage" /\ op.stage = "find"
     /\ \E storeOk \in BOOLEAN :
          IF ~storeOk THEN Throw(i, "storage") /\ UNCHANGED clock
          ELSE IF ~Exists(op.msg) THEN Throw(i, "Message not found") /\ UNCHANGED clock
          ELSE IF NotSender(store[op.msg], op.user)
               THEN Throw(i, "Can only edit your own messages") /\ UNCHANGED clock
          ELSE LET d == store[op.msg]
                   changed == editMessage_change(d, op.content, clock + 1)
               IN /\ clock' = clock + 1
                  /\ Advance(i, [op EXCEPT
                        !.stage = "save", !.room = d.chatRoom,
                        !.doc = <<changed>>,
                        !.mod = {"content", "editedAt"} \cup
                                (IF changed.originalContent # d.originalContent
                                 THEN {"originalContent"} ELSE {})])
                  /\ UNCHANGED <<inbox, last>>
     /\ UNCHANGED <<conns, connectedUsers, rooms, store, cache, client,
                    published, subq, ops, probe, proc>>

deleteMessage_change(d, now) ==
  [d EXCEPT !.isDeleted = TRUE, !.deletedAt = DateAt(now), !.content = Tombstone]

DeleteMessage_find(i) ==
  LET op == pending[i]
  IN /\ op.kind = "deleteMessage" /\ op.stage = "find"
     /\ \E storeOk \in BOOLEAN :
          IF ~storeOk THEN Throw(i, "storage") /\ UNCHANGED clock
          ELSE IF ~Exists(op.msg) THEN Throw(i, "Message not found") /\ UNCHANGED clock
          ELSE IF NotSender(store[op.msg], op.user)
               THEN Throw(i, "Can only delete your own messages") /\ UNCHANGED clock
          ELSE LET d == store[op.msg]
               IN /\ clock' = clock + 1
                  /\ Advance(i, [op EXCEPT
                        !.stage = "save", !.room = d.chatRoom,
                        !.doc = <<deleteMessage_change(d, clock + 1)>>,
                        !.mod = {"isDeleted", "deletedAt", "content"}])
                  /\ UNCHANGED <<inbox, last>>
     /\ UNCHANGED <<conns, connectedUsers, rooms, store, cache, client,
                    published, subq, ops, probe, proc>>

\* index of the user's first reaction in the array, 0 when there is none
ReactionIndex(rs, userId) ==
  LET hits == {k \in 1..Len(rs) : rs[k].user = userId}
  IN IF hits = {} THEN 0 ELSE CHOOSE k \in hits : \A j \in hits : k <= j

\* messageSchema.methods.addReaction, up to its save()
addReaction_change_AlwaysPush(d, userId, emoji) ==
  [d EXCEPT !.reactions = Append(@, [user |-> userId, emoji |-> emoji])]

addReaction_change(d, userId, emoji) ==
  LET k == ReactionIndex(d.reactions, userId)
  IN IF k # 0 THEN [d EXCEPT !.reactions[k].emoji = emoji]
     ELSE [d EXCEPT !.reactions = Append(@, [user |-> userId, emoji |-> emoji])]

\* messageSchema.methods.removeReaction, up to its save()
removeReaction_change(d, userId) ==
  [d EXCEPT !.reactions = SelectSeq(@, LAMBDA r : r.user # userId)]

AddReaction_find(i) ==
  LET op == pending[i]
  IN /\ op.kind = "addReaction" /\ op.stage = "find"
     /\ \E storeOk \in BOOLEAN :
          IF ~storeOk THEN Throw(i, "storage")
          ELSE IF ~Exists(op.msg) THEN Throw(i, "Message not found")
          ELSE LET d == store[op.msg]
                   changed == addReaction_change(d, op.user, op.emoji)
               IN /\ Advance(i, [op EXCEPT
                        !.stage = "save", !.room = d.chatRoom,
                        !.doc = <<changed>>,
                        !.mod = IF Len(changed.reactions) > Len(d.reactions)
                                THEN {"reactions.push"} ELSE {"reactions.at"}])
                  /\ UNCHANGED <<inbox, last>>
     /\ UNCHANGED <<conns, connectedUsers, rooms, store, cache, client,
                    published, subq, clock, ops, probe, proc>>

RemoveReaction_find(i) ==
  LET op == pending[i]
  IN /\ op.kind = "removeReaction" /\ op.stage = "find"
     /\ \E storeOk \in BOOLEAN :
          IF ~storeOk THEN Throw(i, "storage")
          ELSE IF ~Exists(op.msg) THEN Throw(i, "Message not found")
          ELSE LET d == store[op.msg]
               IN /\ Advance(i, [op EXCEPT
                        !.stage = "save", !.room = d.chatRoom,
                        !.doc = <<removeReaction_change(d, op.user)>>,
                        !.mod = IF removeReaction_change(d, op.user) = d
                                THEN {} ELSE {"reactions.set"}])
                  /\ UNCHANGED <<inbox, last>>
     /\ UNCHANGED <<conns, connectedUsers, rooms, store, cache, client,
                    published, subq, clock, ops, probe, proc>>

Mutations == {"editMessage", "deleteMessage", "addReaction", "removeReaction"}

\* what save() writes for the paths the call changed.  A changed scalar path
\* is $set; a pushed reaction is $push; an emoji changed in place is a $set
\* on its array position and a replaced array is a $set of the array, both
\* guarded by the document version.
Written(cur, d, op) ==
  LET k == ReactionIndex(d.reactions, op.user)
  IN [cur EXCEPT
        !.content = IF "content" \in op.mod THEN d.content ELSE @,
        !.editedAt = IF "editedAt" \in op.mod THEN d.editedAt ELSE @,
        !.originalContent = IF "originalContent" \in op.mod THEN d.originalContent ELSE @,
        !.isDeleted = IF "isDeleted" \in op.mod THEN d.isDeleted ELSE @,
        !.deletedAt = IF "deletedAt" \in op.mod THEN d.deletedAt ELSE @,
        !.reactions =
           IF "reactions.push" \in op.mod THEN Append(@, d.reactions[Len(d.reactions)])
           ELSE IF "reactions.at" \in op.mod THEN [@ EXCEPT ![k].emoji = op.emoji]
           ELSE IF "reactions.set" \in op.mod THEN d.reactions
           ELSE @,
        !.v = IF op.mod \cap {"reactions.push", "reactions.set"} # {} THEN @ + 1 ELSE @]

\* await message.save() of a loaded and changed document
Document_save(i) ==
  LET op  == pending[i]
      cur == store[op.msg]
      d   == op.doc[1]
      valid == "content" \in op.mod => ContentValid(d.content)
      versionOk == op.mod \cap {"reactions.at", "reactions.set"} # {} => cur.v = d.v
  IN /\ op.kind \in Mutations /\ op.stage = "save"
     /\ \E storeOk \in BOOLEAN :
          IF storeOk /\ valid /\ versionOk
          THEN /\ store' = [store EXCEPT ![op.msg] = Written(cur, d, op)]
               /\ Advance(i, [op EXCEPT !.stage = "invalidate", !.doc = <<>>])
               /\ UNCHANGED <<inbox, last>>
          ELSE /\ Throw(i, "storage")
               /\ UNCHANGED store
     /\ UNCHANGED <<conns, connectedUsers, rooms, cache, client, published,
                    subq, clock, ops, probe, proc>>

\* the query of markMessagesAsRead: {chatRoom, 'readBy.user': {$ne: userId}}
\* and, for a non-empty messageIds, _id: {$in: messageIds}
markReadQuery_NoNe(k, chatRoom, userId, messageIds) ==
  /\ store[k].chatRoom = chatRoom
  /\ (messageIds = {} \/ k \in messageIds)

markReadQuery(k, chatRoom, userId, messageIds) ==
  /\ store[k].chatRoom = chatRoom
  /\ userId \notin ReadByUsers(store[k])
  /\ (messageIds = {} \/ k \in messageIds)

\* ChatService.markMessagesAsRead: Message.updateMany(query, {$push: readBy})
MarkMessagesAsRead_update(i) ==
  LET op == pending[i]
      hit(k) == markReadQuery(k, op.room, op.user, op.ids)
      n == Cardinality({k \in 1..Len(store) : hit(k)})
  IN /\ op.kind = "markMessagesAsRead" /\ op.stage = "update"
     /\ \E storeOk \in BOOLEAN :
          IF storeOk
          THEN /\ store' = [k \in 1..Len(store) |->
                             IF hit(k)
                             THEN [store[k] EXCEPT !.readBy =
                                     Append(@, [user |-> op.user, readAt |-> clock + 1])]
                             ELSE store[k]]
               /\ clock' = IF n > 0 THEN clock + 1 ELSE clock
               /\ Advance(i, [op EXCEPT !.stage = "invalidate", !.out = <<n>>])
               /\ UNCHANGED <<inbox, last>>
          ELSE /\ Throw(i, "storage")
               /\ UNCHANGED <<store, clock>>
     /\ UNCHANGED <<conns, connectedUsers, rooms, cache, client, published,
                    subq, ops, probe, proc>>

\* Message.updateMany document by document, for calls that overlap: the
\* server applies the query and the $push to one document at a time, each
\* atomically; op.msg is the document the update has reached
NextToMark(op) ==
  {k \in 1..Len(store) :
     /\ k > op.msg
     /\ markReadQuery(k, op.room, op.user, op.ids)
     /\ \A j \in (op.msg + 1)..(k - 1) : ~markReadQuery(j, op.room, op.user, op.ids)}

MarkMessagesAsRead_updateOne(i) ==
  LET op == pending[i]
      marked == IF op.out = <<>> THEN 0 ELSE op.out[1]
  IN /\ op.kind = "markMessagesAsRead" /\ op.stage = "update"
     /\ \E storeOk \in BOOLEAN :
          IF ~storeOk THEN Throw(i, "storage") /\ UNCHANGED <<store, clock>>
          ELSE IF NextToMark(op) = {}
          THEN /\ Advance(i, [op EXCEPT !.stage = "invalidate", !.msg = 0,
                                !.out = <<marked>>])
               /\ UNCHANGED <<store, clock, inbox, last>>
          ELSE \E k \in NextToMark(op) :
                 /\ store' = [store EXCEPT ![k].readBy =
                                Append(@, [user |-> op.user, readAt |-> clock + 1])]
                 /\ clock' = clock + 1
                 /\ Advance(i, [op EXCEPT !.msg = k, !.out = <<marked + 1>>])
                 /\ UNCHANGED <<inbox, last>>
     /\ UNCHANGED <<conns, connectedUsers, rooms, cache, client, published,
                    subq, ops, probe, proc>>

Invalidating == Mutations \cup {"markMessagesAsRead"}

\* await deleteCache(`chat_history:${chatRoom}*`)
Service_invalidate(i) ==
  LET op == pending[i]
  IN /\ op.kind \in Invalidating /\ op.stage = "invalidate"
     /\ \E ok \in RedisOutcomes(op.inst) :
          cache' = deleteCache(ok, InvalidateKey(op.room))
     /\ Advance(i, [op EXCEPT !.stage = "publish"])
     /\ UNCHANGED <<conns, connectedUsers, rooms, inbox, store, client,
                    published, subq, clock, ops, last, probe, proc>>

\* the object each operation hands to publishMessage; only saveMessage puts
\* the message document (and so its chatRoom) into it
PublishedType(kind) ==
  CASE kind = "editMessage"        -> "message_edited"
    [] kind = "deleteMessage"      -> "message_deleted"
    [] kind = "addReaction"        -> "reaction_added"
    [] kind = "removeReaction"     -> "reaction_removed"
    [] kind = "markMessagesAsRead" -> "messages_read"

\* await publishMessage(`chat:${chatRoom}`, {...})
Service_publish(i) ==
  LET op == pending[i]
  IN /\ op.kind \in Invalidating /\ op.stage = "publish"
     /\ \E ok \in RedisOutcomes(op.inst) :
          publishMessage(ok, ChatChannel(op.room),
                         [type |-> PublishedType(op.kind), hasMessage |-> FALSE,
                          room |-> <<>>, messageId |-> op.msg, userId |-> op.user])
     /\ Advance(i, [op EXCEPT !.stage = "return"])
     /\ UNCHANGED <<conns, connectedUsers, rooms, inbox, store, cache, client,
                    clock, ops, last, probe, proc>>

\* the service call returns: a direct caller gets the value; the send_message
\* handler does this.io.to(roomId).emit('new_message', savedMessage); the
\* join_room handler does socket.emit('chat_history', history) and
\* socket.to(roomId).emit('user_joined', ...); the other handlers only log
Service_return(i) ==
  LET op == pending[i]
      members == InRoom(op.inst, op.room)
      history == IF op.kind = "getChatHistory"
                 THEN [k \in 1..Len(op.out[1].messages) |-> op.out[1].messages[k].id]
                 ELSE <<>>
  IN /\ op.stage = "return"
     /\ pending' = RemoveAt(pending, i)
     /\ IF op.handler = None
        THEN last' = Remember(Outcome(op, TRUE, "", op.out)) /\ UNCHANGED inbox
        ELSE /\ last' = last
             /\ IF op.handler = "send_message"
                THEN Deliver(members, Event("new_message", "", op.room, op.msg, op.user, <<>>))
                ELSE IF op.handler = "join_room"
                THEN inbox' = [c \in Conn |->
                       IF c \in Self(op.conn)
                       THEN Append(inbox[c], Event("chat_history", "", op.room, 0, <<>>, history))
                       ELSE IF c \in members
                       THEN Append(inbox[c], Event("user_joined", "", op.room, 0, op.user, <<>>))
                       ELSE inbox[c]]
                ELSE UNCHANGED inbox
     /\ UNCHANGED <<conns, connectedUsers, rooms, store, cache, client,
                    published, subq, clock, ops, probe, proc>>

\* ------------------------------------------------------------------------
\* Direct calls of the service (the HTTP controllers call it this way)
\* ------------------------------------------------------------------------
MessageData(sender, content, messageType, chatRoom, chatType, journeyId, location) ==
  [sender |-> sender, content |-> content, messageType |-> messageType,
   chatRoom |-> chatRoom, chatType |-> chatType, journeyId |-> journeyId,
   location |-> location, parentMessage |-> <<>>]

Accept(lim, op) ==
  /\ CanBegin(lim)
  /\ Begin(op)
  /\ UNCHANGED <<conns, connectedUsers, rooms, inbox, store, cache, client,
                 published, subq, clock, last, probe, proc>>

\* room for one more document in the bounded collection
StoreHasRoom == Len(store) + Cardinality(Saving) < MaxMsgs

CallSaveMessage(lim, inst, data) ==
  /\ StoreHasRoom
  /\ Accept(lim, [Op0 EXCEPT !.kind = "saveMessage", !.stage = "save",
                      !.inst = inst, !.user = data.sender, !.room = data.chatRoom,
                      !.content = data.content, !.data = <<data>>])

CallGetChatHistory(lim, inst, chatRoom, page, pageSize) ==
  Accept(lim, [Op0 EXCEPT !.kind = "getChatHistory", !.stage = "cacheGet",
                   !.inst = inst, !.room = chatRoom, !.page = page, !.limit = pageSize])

CallEditMessage(lim, inst, messageId, userId, newContent) ==
  Accept(lim, [Op0 EXCEPT !.kind = "editMessage", !.stage = "find", !.inst = inst,
                   !.msg = messageId, !.user = userId, !.content = newContent])

CallDeleteMessage(lim, inst, messageId, userId) ==
  Accept(lim, [Op0 EXCEPT !.kind = "deleteMessage", !.stage = "find", !.inst = inst,
                   !.msg = messageId, !.user = userId])

CallAddReaction(lim, inst, messageId, userId, emoji) ==
  Accept(lim, [Op0 EXCEPT !.kind = "addReaction", !.stage = "find", !.inst = inst,
                   !.msg = messageId, !.user = userId, !.emoji = emoji])

CallRemoveReaction(lim, inst, messageId, userId) ==
  Accept(lim, [Op0 EXCEPT !.kind = "removeReaction", !.stage = "find", !.inst = inst,
                   !.msg = messageId, !.user = userId])

CallMarkMessagesAsRead(lim, inst, chatRoom, userId, messageIds) ==
  Accept(lim, [Op0 EXCEPT !.kind = "markMessagesAsRead", !.stage = "update",
                   !.inst = inst, !.room = chatRoom, !.user = userId, !.ids = messageIds])

\* ChatController.sendMessage: the checks that answer 400
HttpSendError(roomId, content) ==
  IF roomId = <<>> \/ content = <<>> THEN "Room ID and content are required"
  ELSE IF CLen(CTrim(content)) = 0 THEN "Message content cannot be empty"
  ELSE IF CLen(content) > MaxContentLength THEN "Message cannot exceed 1000 characters"
  ELSE ""

\* the messageData object ChatController.sendMessage builds: sender, content,
\* messageType, chatRoom, chatType and parentMessage, nothing else
HttpMessageData(userId, roomId, content, messageType) ==
  MessageData(userId, CTrim(content), messageType, roomId, httpChatType(roomId),
              <<>>, <<>>)

\* POST of a message by an authenticated user, up to the await of saveMessage;
\* the response (400, 201 with the saved message, or the error handed to
\* next) is the outcome the caller sees
HttpSendMessage(lim, inst, userId, roomId, content, messageType) ==
  LET op == [Op0 EXCEPT !.kind = "saveMessage", !.stage = "save", !.inst = inst,
                        !.user = userId, !.room = roomId, !.content = content]
  IN /\ CanHandle(lim)
     /\ IF HttpSendError(roomId, content) # ""
        THEN /\ last' = Remember(Outcome(op, FALSE, HttpSendError(roomId, content), <<>>))
             /\ ops' = ops + 1
             /\ UNCHANGED pending
        ELSE /\ Len(pending) < lim.pending
             /\ StoreHasRoom
             /\ Begin([op EXCEPT
                         !.data = <<HttpMessageData(userId, roomId, content, messageType)>>])
             /\ UNCHANGED last
     /\ UNCHANGED <<conns, connectedUsers, rooms, inbox, store, cache, client,
                    published, subq, clock, probe, proc>>

\* ChatController.editMessage: the checks that answer 400
HttpEditError(content) ==
  IF content = <<>> \/ CLen(CTrim(content)) = 0 THEN "Message content is required"
  ELSE IF CLen(content) > MaxContentLength THEN "Message cannot exceed 1000 characters"
  ELSE ""

\* ChatController.editMessage: the 400 checks, then editMessage with the
\* trimmed content
HttpEditMessage(lim, inst, messageId, userId, content) ==
  IF HttpEditError(content) # ""
  THEN /\ CanHandle(lim)
       /\ last' = Remember(Outcome([Op0 EXCEPT !.kind = "editMessage", !.inst = inst,
                                               !.msg = messageId, !.user = userId,
                                               !.content = content],
                                   FALSE, HttpEditError(content), <<>>))
       /\ ops' = ops + 1
       /\ UNCHANGED <<conns, connectedUsers, rooms, inbox, store, cache, client,
                      published, subq, pending, clock, probe, proc>>
  ELSE CallEditMessage(lim, inst, messageId, userId, CTrim(content))

\* ------------------------------------------------------------------------
\* ChatSocket: connection gateway
\* ------------------------------------------------------------------------
Users == {U1, U2, U3}

NoToken == [kind |-> "none", user |-> <<>>]
BadToken == [kind |-> "bad", user |-> <<>>]
GoodToken(u) == [kind |-> "good", user |-> u]

\* socket.handshake.auth.token || socket.handshake.headers.authorization?.split(' ')[1]
HandshakeToken(hs) == IF hs.auth.kind # "none" THEN hs.auth ELSE hs.header

\* the io.use middleware: jwt.verify throws for a token that is not a valid
\* signed token; a missing token is refused before that
Authenticate_NoVerify(hs) ==
  LET token == HandshakeToken(hs)
  IN IF token.kind = "none" THEN [ok |-> FALSE, userId |-> <<>>]
     ELSE [ok |-> TRUE, userId |-> token.user]

Authenticate(hs) ==
  LET token == HandshakeToken(hs)
  IN IF token.kind = "none" THEN [ok |-> FALSE, userId |-> <<>>]
     ELSE IF token.kind = "bad" THEN [ok |-> FALSE, userId |-> <<>>]
     ELSE [ok |-> TRUE, userId |-> token.user]

UserPrefix == <<"u", "s", "e", "r", "_">>
\* `user_${userId}`
UserChannel(userId) == UserPrefix \o userId

NoConn == [status |-> "free", user |-> <<>>, inst |-> "A",
           hs |-> [auth |-> NoToken, header |-> NoToken]]

\* a client opens a connection to instance i: middleware, then handleConnection
Connect(c, i, hs) ==
  LET a == Authenticate(hs)
  IN /\ proc[i] = "running"
     /\ conns[c].status = "free"
     /\ \A b \in Conn : b < c => conns[b].status # "free"
     /\ IF a.ok
        THEN /\ conns' = [conns EXCEPT ![c] = [status |-> "connected", user |-> a.userId,
                                               inst |-> i, hs |-> hs]]
             /\ connectedUsers' = [connectedUsers EXCEPT ![i][a.userId] = c]
             /\ rooms' = [rooms EXCEPT ![c] = {UserChannel(a.userId)}]
        ELSE /\ conns' = [conns EXCEPT ![c] = [status |-> "rejected", user |-> <<>>,
                                               inst |-> i, hs |-> hs]]
             /\ UNCHANGED <<connectedUsers, rooms>>
     /\ UNCHANGED <<inbox, store, cache, client, published, subq, pending,
                    clock, ops, last, probe, proc>>

\* ChatSocket.validateRoomAccess: every known room type is let in
validateRoomAccess(userId, roomId, roomType) ==
  CASE roomType = "group_planning" -> TRUE
    [] roomType = "location_chat"  -> TRUE
    [] roomType = "qa_chat"        -> TRUE
    [] roomType = "direct"         -> TRUE
    [] OTHER                       -> FALSE

JoinHistoryPage == 1
JoinHistoryLimit == 20

\* socket.on('join_room'): up to the await of getChatHistory
JoinRoom(lim, c, roomId, roomType) ==
  /\ Connected(c)
  /\ CanHandle(lim)
  /\ IF ~validateRoomAccess(conns[c].user, roomId, roomType)
     THEN /\ Deliver({c}, Event("error", "Access denied to this chat room", <<>>, 0, <<>>, <<>>))
          /\ ops' = ops + 1
          /\ UNCHANGED <<rooms, pending>>
     ELSE /\ Len(pending) < lim.pending
          /\ rooms' = [rooms EXCEPT ![c] = @ \cup {roomId}]
          /\ Begin([Op0 EXCEPT !.kind = "getChatHistory", !.handler = "join_room",
                      !.stage = "cacheGet", !.inst = conns[c].inst, !.conn = c,
                      !.user = conns[c].user, !.room = roomId,
                      !.page = JoinHistoryPage, !.limit = JoinHistoryLimit])
          /\ UNCHANGED inbox
  /\ UNCHANGED <<conns, connectedUsers, store, cache, client, published, subq,
                 clock, last, probe, proc>>

\* socket.on('leave_room')
LeaveRoom(lim, c, roomId) ==
  /\ Connected(c)
  /\ CanHandle(lim)
  /\ rooms' = [rooms EXCEPT ![c] = @ \ {roomId}]
  /\ Deliver(InRoom(conns[c].inst, roomId) \ {c},
             Event("user_left", "", roomId, 0, conns[c].user, <<>>))
  /\ ops' = ops + 1
  /\ UNCHANGED <<conns, connectedUsers, store, cache, client, published, subq,
                 pending, clock, last, probe, proc>>

\* the send_message handler's own checks: !content || content.trim().length === 0,
\* then content.length > 1000
ContentError_NoLengthCheck(content) ==
  IF content = <<>> \/ CLen(CTrim(content)) = 0 THEN "Message content is required"
  ELSE ""

ContentError(content) ==
  IF content = <<>> \/ CLen(CTrim(content)) = 0 THEN "Message content is required"
  ELSE IF CLen(content) > MaxContentLength THEN "Message too long (max 1000 characters)"
  ELSE ""

\* the messageData object the send_message handler builds
SocketMessageData(userId, roomId, content, messageType) ==
  LET chatType == determineChatType(roomId)
  IN MessageData(userId, CTrim(content), messageType, roomId, chatType,
                 IF chatType = "group_planning" THEN <<extractJourneyId(roomId)>> ELSE <<>>,
                 IF chatType = "location_chat" THEN <<extractLocationData(roomId)>> ELSE <<>>)

\* socket.on('send_message'): up to the await of saveMessage
SendMessage(lim, c, roomId, content, messageType) ==
  /\ Connected(c)
  /\ CanHandle(lim)
  /\ IF ContentError(content) # ""
     THEN /\ Deliver({c}, Event("error", ContentError(content), <<>>, 0, <<>>, <<>>))
          /\ ops' = ops + 1
          /\ UNCHANGED pending
     ELSE /\ Len(pending) < lim.pending
          /\ StoreHasRoom
          /\ Begin([Op0 EXCEPT !.kind = "saveMessage", !.handler = "send_message",
                      !.stage = "save", !.inst = conns[c].inst, !.conn = c,
                      !.user = conns[c].user, !.room = roomId, !.content = content,
                      !.data = <<SocketMessageData(conns[c].user, roomId, content, messageType)>>])
          /\ UNCHANGED inbox
  /\ UNCHANGED <<conns, connectedUsers, rooms, store, cache, client, published,
                 subq, clock, last, probe, proc>>

\* socket.on('disconnect'); the transport takes the socket out of its rooms
Disconnect(c) ==
  /\ Connected(c)
  /\ conns' = [conns EXCEPT ![c].status = "closed"]
  /\ connectedUsers' = [connectedUsers EXCEPT ![conns[c].inst][conns[c].user] = 0]
  /\ rooms' = [rooms EXCEPT ![c] = {}]
  /\ UNCHANGED <<inbox, store, cache, client, published, subq, pending, clock,
                 ops, last, probe, proc>>

\* socket.on('typing_start') / socket.on('typing_stop') with a payload
Typing(lim, c, roomId, typing) ==
  /\ Connected(c)
  /\ CanHandle(lim)
  /\ Deliver(InRoom(conns[c].inst, roomId) \ {c},
             Event("user_typing", "", roomId, 0, conns[c].user, <<typing>>))
  /\ ops' = ops + 1
  /\ UNCHANGED <<conns, connectedUsers, rooms, store, cache, client, published,
                 subq, pending, clock, last, probe, proc>>

\* ChatSocket.sendNotificationToUser on instance i: the presence map is
\* looked up, and only when it has the user is the event sent to the
\* user's own room
SendNotificationToUser(lim, i, userId) ==
  /\ CanHandle(lim)
  /\ proc[i] = "running"
  /\ IF connectedUsers[i][userId] # 0
     THEN Deliver(InRoom(i, UserChannel(userId)),
                  Event("notification", "", <<>>, 0, userId, <<>>))
     ELSE UNCHANGED inbox
  /\ ops' = ops + 1
  /\ UNCHANGED <<conns, connectedUsers, rooms, store, cache, client, published,
                 subq, pending, clock, last, probe, proc>>

\* a handler that awaits a service call inside its try block
HandlerCall(lim, c, op) ==
  /\ Connected(c)
  /\ CanBegin(lim)
  /\ Begin([op EXCEPT !.inst = conns[c].inst, !.conn = c, !.user = conns[c].user])
  /\ UNCHANGED <<conns, connectedUsers, rooms, inbox, store, cache, client,
                 published, subq, clock, last, probe, proc>>

\* socket.on('add_reaction')
AddReaction(lim, c, messageId, emoji) ==
  HandlerCall(lim, c, [Op0 EXCEPT !.kind = "addReaction", !.handler = "add_reaction",
                                  !.stage = "find", !.msg = messageId, !.emoji = emoji])

\* socket.on('remove_reaction')
RemoveReaction(lim, c, messageId) ==
  HandlerCall(lim, c, [Op0 EXCEPT !.kind = "removeReaction", !.handler = "remove_reaction",
                                  !.stage = "find", !.msg = messageId])

\* socket.on('edit_message')
EditMessage(lim, c, messageId, newContent) ==
  HandlerCall(lim, c, [Op0 EXCEPT !.kind = "editMessage", !.handler = "edit_message",
                                  !.stage = "find", !.msg = messageId,
                                  !.content = newContent])

\* socket.on('delete_message')
DeleteMessage(lim, c, messageId) ==
  HandlerCall(lim, c, [Op0 EXCEPT !.kind = "deleteMessage", !.handler = "delete_message",
                                  !.stage = "find", !.msg = messageId])

\* socket.on('mark_messages_read')
MarkMessagesRead(lim, c, roomId, messageIds) ==
  HandlerCall(lim, c, [Op0 EXCEPT !.kind = "markMessagesAsRead",
                                  !.handler = "mark_messages_read", !.stage = "update",
                                  !.room = roomId, !.ids = messageIds])

Handlers ==
  {"join_room", "leave_room", "send_message", "typing_start", "typing_stop",
   "add_reaction", "remove_reaction", "edit_message", "delete_message",
   "mark_messages_read"}

\* the handlers whose body is not inside a try block
Unguarded == {"leave_room", "typing_start", "typing_stop"}

\* process.on('uncaughtException') calls gracefulShutdown: server.close()
\* stops accepting connections and the exit timer is started
UncaughtException(i) ==
  proc' = [proc EXCEPT ![i] = IF @ = "running" THEN "closing" ELSE @]

\* a client emits an event without a payload: `const { ... } = data` throws a
\* TypeError.  Inside a try block the catch answers it; outside, it leaves
\* the listener as an uncaught exception
MissingPayload(lim, c, h) ==
  /\ Connected(c)
  /\ CanHandle(lim)
  /\ IF h \in Unguarded
     THEN UncaughtException(conns[c].inst) /\ UNCHANGED inbox
     ELSE /\ IF h = "mark_messages_read" THEN UNCHANGED inbox
             ELSE Deliver(Self(c), Event("error", HandlerError(h), <<>>, 0, <<>>, <<>>))
          /\ UNCHANGED proc
  /\ ops' = ops + 1
  /\ UNCHANGED <<conns, connectedUsers, rooms, store, cache, client, published,
                 subq, pending, clock, last, probe>>

\* process.exit of a closing instance, from the close callback or from the
\* 30 s timer: its connections end, its suspended handlers are gone
ProcessExit(i) ==
  LET mine == {c \in Conn : Connected(c) /\ conns[c].inst = i}
  IN /\ proc[i] = "closing"
     /\ proc' = [proc EXCEPT ![i] = "exited"]
     /\ conns' = [c \in Conn |->
                    IF c \in mine THEN [conns[c] EXCEPT !.status = "closed"] ELSE conns[c]]
     /\ connectedUsers' = [connectedUsers EXCEPT ![i] = [u \in Users |-> 0]]
     /\ rooms' = [c \in Conn |-> IF c \in mine THEN {} ELSE rooms[c]]
     /\ pending' = SelectSeq(pending, LAMBDA op : op.inst # i)
     /\ subq' = [subq EXCEPT ![i] = <<>>]
     /\ UNCHANGED <<inbox, store, cache, client, published, clock, ops, last, probe>>

\* the client event the relay emits for a published event type
RelayedType(type) ==
  CASE type = "reaction_added"   -> "reaction_updated"
    [] type = "reaction_removed" -> "reaction_updated"
    [] type = "message_edited"   -> "message_updated"
    [] type = "message_deleted"  -> "message_deleted"
    [] type = "messages_read"    -> "messages_read"
    [] OTHER                     -> ""

\* the rooms and event handleRedisMessage emits to: nothing for new_message;
\* for the other types payload.message.chatRoom, which throws inside the
\* subscriber callback (caught and logged there) when payload has no message
handleRedisMessage_Rebroadcast(i, data) ==
  IF data.type = "new_message"
  THEN [to |-> InRoom(i, data.room), type |-> "new_message"]
  ELSE IF RelayedType(data.type) # "" /\ data.hasMessage
  THEN [to |-> InRoom(i, data.room), type |-> RelayedType(data.type)]
  ELSE [to |-> {}, type |-> ""]

handleRedisMessage(i, data) ==
  IF data.type = "new_message" THEN [to |-> {}, type |-> ""]
  ELSE IF RelayedType(data.type) # "" /\ data.hasMessage
  THEN [to |-> InRoom(i, data.room), type |-> RelayedType(data.type)]
  ELSE [to |-> {}, type |-> ""]

\* the subscriber of instance i handles the next event it received
Relay(i) ==
  /\ subq[i] # <<>>
  /\ LET data == Head(subq[i])
         e == handleRedisMessage(i, data)
     IN Deliver(e.to, Event(e.type, "", data.room, data.messageId, data.userId, <<>>))
  /\ subq' = [subq EXCEPT ![i] = Tail(@)]
  /\ UNCHANGED <<conns, connectedUsers, rooms, store, cache, client, published,
                 pending, clock, ops, last, probe, proc>>

\* ------------------------------------------------------------------------
\* Initial state: a fresh deployment, empty collection and cache
\* ------------------------------------------------------------------------
NoProbe == [roomId |-> <<>>, socket |-> <<>>, http |-> <<>>]

InitState ==
  /\ conns = [c \in Conn |-> NoConn]
  /\ connectedUsers = [i \in Instances |-> [u \in Users |-> 0]]
  /\ rooms = [c \in Conn |-> {}]
  /\ inbox = [c \in Conn |-> <<>>]
  /\ store = <<>>
  /\ cache = <<>>
  /\ published = <<>>
  /\ subq = [i \in Instances |-> <<>>]
  /\ pending = <<>>
  /\ clock = 0
  /\ ops = 0
  /\ last = <<NoOutcome, NoOutcome>>
  /\ proc = [i \in Instances |-> "running"]

\* ------------------------------------------------------------------------
\* Room category derivation on its own
\* ------------------------------------------------------------------------
MaxIdParts == 4

IdTokens ==
  {JourneyPrefix, LocationPrefix, QaPrefix, <<"_">>, <<"1", "2", ".", "5">>,
   <<"-", "4", "5", ".", "0">>, <<"x">>, <<".">>}

RECURSIVE IdsOfParts(_)
IdsOfParts(n) ==
  IF n = 0 THEN {<<>>}
  ELSE LET shorter == IdsOfParts(n - 1)
       IN shorter \cup {s \o t : s \in shorter, t \in IdTokens}

RoomIdInputs == IdsOfParts(MaxIdParts)

InitRoomId ==
  /\ InitState
  /\ client = AllClients("flaky")
  /\ probe \in {[NoProbe EXCEPT !.roomId = r] : r \in RoomIdInputs}

\* the derivation in the send_message handler
DeriveSocket ==
  /\ probe.socket = <<>>
  /\ LET d == SocketMessageData(U1, probe.roomId, TextA, "text")
     IN probe' = [probe EXCEPT !.socket = <<[chatType |-> d.chatType,
                                            journeyId |-> d.journeyId,
                                            location |-> d.location]>>]
  /\ UNCHANGED <<conns, connectedUsers, rooms, inbox, store, cache, client,
                 published, subq, pending, clock, ops, last, proc>>

\* the derivation in ChatController.sendMessage, which refuses !roomId first
DeriveHttp ==
  /\ probe.http = <<>>
  /\ probe.roomId # <<>>
  /\ probe' = [probe EXCEPT !.http = <<[chatType |-> httpChatType(probe.roomId)]>>]
  /\ UNCHANGED <<conns, connectedUsers, rooms, inbox, store, cache, client,
                 published, subq, pending, clock, ops, last, proc>>

NextRoomId == DeriveSocket \/ DeriveHttp

SpecRoomId == InitRoomId /\ [][NextRoomId]_vars

\* ------------------------------------------------------------------------
\* The gateway with its clients
\* ------------------------------------------------------------------------
Handshake(a, h) == [auth |-> a, header |-> h]

QaRoomOfU2 == QaRoom(J1, U2)

Steps(i) ==
  \/ SaveMessage_save(i)
  \/ SaveMessage_publish(i)
  \/ GetChatHistory_cacheGet(i)
  \/ GetChatHistory_find(i)
  \/ GetChatHistory_cacheSet(i)
  \/ Service_return(i)

\* Admission: who gets a connection, who gets into a room, what may be sent
MaxGateOps == 2
MaxGatePending == 2

GateLimits == [ops |-> MaxGateOps, pending |-> MaxGatePending]

GateHandshakes ==
  {Handshake(NoToken, NoToken), Handshake(BadToken, NoToken),
   Handshake(NoToken, BadToken), Handshake(BadToken, GoodToken(U1)),
   Handshake(GoodToken(U1), NoToken), Handshake(NoToken, GoodToken(U3))}

GateRooms == {QaRoomOfU2}
GateRoomTypes == {"qa_chat", "direct", "undefined"}
GateContents == {Empty, Blank, PaddedA, TooLong, PaddedLong}

InitGate ==
  /\ InitState
  /\ client \in {AllClients("flaky"), AllClients("none")}
  /\ probe = NoProbe

NextGate ==
  \/ \E c \in Conn, i \in Instances, hs \in GateHandshakes : Connect(c, i, hs)
  \/ \E c \in Conn, r \in GateRooms, t \in GateRoomTypes :
       JoinRoom(GateLimits, c, r, t)
  \/ \E c \in Conn, r \in GateRooms : LeaveRoom(GateLimits, c, r)
  \/ \E c \in Conn, r \in GateRooms, x \in GateContents :
       SendMessage(GateLimits, c, r, x, "text")
  \/ \E c \in Conn : Disconnect(c)
  \/ \E i \in 1..Len(pending) : Steps(i)

SpecGate == InitGate /\ [][NextGate]_vars

\* Fan-out: members of a room on two instances, sends, and the relay
MaxSendOps == 3
MaxSendPending == 2

SendLimits == [ops |-> MaxSendOps, pending |-> MaxSendPending]

SendHandshakes == {Handshake(GoodToken(U1), NoToken), Handshake(NoToken, GoodToken(U3))}
\* the room whose channel is the one the subscribers listen to
SendRooms == {StarRoom}

InitSend ==
  /\ InitState
  /\ client = AllClients("flaky")
  /\ probe = NoProbe

NextSend ==
  \/ \E c \in Conn, i \in Instances, hs \in SendHandshakes : Connect(c, i, hs)
  \/ \E c \in Conn, r \in SendRooms : JoinRoom(SendLimits, c, r, determineChatType(r))
  \/ \E c \in Conn, r \in SendRooms : LeaveRoom(SendLimits, c, r)
  \/ \E c \in Conn, r \in SendRooms : SendMessage(SendLimits, c, r, PaddedA, "text")
  \/ \E i \in Instances : Relay(i)
  \/ \E i \in 1..Len(pending) : Steps(i)

SpecSend == InitSend /\ [][NextSend]_vars

\* ------------------------------------------------------------------------
\* The persistence service called directly, one call at a time
\* ------------------------------------------------------------------------
Emojis == {"thumbsup", "heart"}
ServiceUsers == {U1, U2}
ServiceRoom == JourneyRoom(J1)

InitService ==
  /\ InitState
  /\ client = AllClients("flaky")
  /\ probe = NoProbe

SaveCalls(lim) ==
  \E u \in ServiceUsers :
    CallSaveMessage(lim, "A", SocketMessageData(u, ServiceRoom, TextA, "text"))

\* save, edit, delete and history
MaxEditOps == 4
EditLimits == [ops |-> MaxEditOps, pending |-> 1]
EditContents == {TextB, TooLong}
Pages == {1, 2}
PageSizes == {1, JoinHistoryLimit}

EditSteps(i) ==
  \/ SaveMessage_save(i)
  \/ SaveMessage_publish(i)
  \/ EditMessage_find(i)
  \/ DeleteMessage_find(i)
  \/ Document_save(i)
  \/ Service_invalidate(i)
  \/ Service_publish(i)
  \/ GetChatHistory_cacheGet(i)
  \/ GetChatHistory_find(i)
  \/ GetChatHistory_cacheSet(i)
  \/ Service_return(i)

NextEdit ==
  \/ SaveCalls(EditLimits)
  \/ \E m \in 1..MaxMsgs, u \in ServiceUsers, x \in EditContents :
       CallEditMessage(EditLimits, "A", m, u, x)
  \/ \E m \in 1..MaxMsgs, u \in ServiceUsers : CallDeleteMessage(EditLimits, "A", m, u)
  \/ \E p \in Pages, n \in PageSizes :
       CallGetChatHistory(EditLimits, "A", ServiceRoom, p, n)
  \/ \E key \in DOMAIN cache : CacheExpire(key)
  \/ \E i \in 1..Len(pending) : EditSteps(i)

SpecEdit == InitService /\ [][NextEdit]_vars

\* save and reactions
MaxReactOps == 4
ReactLimits == [ops |-> MaxReactOps, pending |-> 1]

ReactSteps(i) ==
  \/ SaveMessage_save(i)
  \/ SaveMessage_publish(i)
  \/ AddReaction_find(i)
  \/ RemoveReaction_find(i)
  \/ Document_save(i)
  \/ Service_invalidate(i)
  \/ Service_publish(i)
  \/ Service_return(i)

NextReact ==
  \/ SaveCalls(ReactLimits)
  \/ \E m \in 1..MaxMsgs, u \in ServiceUsers, e \in Emojis :
       CallAddReaction(ReactLimits, "A", m, u, e)
  \/ \E m \in 1..MaxMsgs, u \in ServiceUsers : CallRemoveReaction(ReactLimits, "A", m, u)
  \/ \E i \in 1..Len(pending) : ReactSteps(i)

SpecReact == InitService /\ [][NextReact]_vars

\* save and read receipts
MaxReadOps == 4
ReadLimits == [ops |-> MaxReadOps, pending |-> 1]

ReadSteps(i) ==
  \/ SaveMessage_save(i)
  \/ SaveMessage_publish(i)
  \/ MarkMessagesAsRead_update(i)
  \/ Service_invalidate(i)
  \/ Service_publish(i)
  \/ Service_return(i)

NextRead ==
  \/ SaveCalls(ReadLimits)
  \/ \E u \in ServiceUsers, ids \in SUBSET (1..MaxMsgs) :
       CallMarkMessagesAsRead(ReadLimits, "A", ServiceRoom, u, ids)
  \/ \E i \in 1..Len(pending) : ReadSteps(i)

SpecRead == InitService /\ [][NextRead]_vars

\* ------------------------------------------------------------------------
\* Properties of the room category derivation (SpecRoomId)
\* ------------------------------------------------------------------------
ExampleLocationRoom ==
  LocationPrefix \o <<"1", "2", ".", "5">> \o <<"_">> \o <<"-", "4", "5", ".", "0">>

\* the underscore-separated fields that follow a prefix of the id
FieldsAfter(r, prefix) == Split(Drop(r, Len(prefix)), "_")

\* C10: the category is a function of the room id alone: journey_ gives
\* group_planning, location_ gives location_chat with latitude and longitude
\* read from the first two underscore-separated fields after the prefix
\* (location_12.5_-45.0 gives 12.5 and -45), qa_ gives qa_chat, every other
\* id gives direct; and the HTTP send path derives the category the
\* real-time path derives.
C10_CategoryDerivation ==
  LET r == probe.roomId
      f == FieldsAfter(r, LocationPrefix)
      known == StartsWith(r, JourneyPrefix) \/ StartsWith(r, LocationPrefix)
               \/ StartsWith(r, QaPrefix)
  IN /\ probe.socket # <<>> =>
          LET d == probe.socket[1]
          IN /\ d.chatType \in ChatTypes
             /\ StartsWith(r, JourneyPrefix) => d.chatType = "group_planning"
             /\ StartsWith(r, LocationPrefix) =>
                  /\ d.chatType = "location_chat"
                  /\ d.location =
                       <<[latitude  |-> ParseFloat(f[1]),
                          longitude |-> IF Len(f) >= 2 THEN ParseFloat(f[2]) ELSE NaN]>>
             /\ StartsWith(r, QaPrefix) => d.chatType = "qa_chat"
             /\ ~known => d.chatType = "direct"
             /\ d.chatType # "location_chat" => d.location = <<>>
             /\ r = ExampleLocationRoom =>
                  d.location = <<[latitude  |-> [nan |-> FALSE, m |-> 125, e |-> 1],
                                  longitude |-> [nan |-> FALSE, m |-> 0 - 45, e |-> 0]]>>
     /\ (probe.socket # <<>> /\ probe.http # <<>>) =>
          probe.http[1].chatType = probe.socket[1].chatType

\* the example id of the specification has gone through both paths
C10_Witness ==
  /\ probe.roomId = ExampleLocationRoom
  /\ probe.socket # <<>>
  /\ probe.http # <<>>

\* ------------------------------------------------------------------------
\* Properties of admission (SpecGate)
\* ------------------------------------------------------------------------
\* C1: a connection whose handshake has no token, or a token that does not
\* verify, is rejected: it is in no presence map, in no room (not even its
\* user channel), no call made for it is pending, and it has received
\* no event.
C1_RejectedBeforeRegistration ==
  \A c \in Conn :
    (conns[c].status # "free" /\ HandshakeToken(conns[c].hs).kind # "good") =>
       /\ conns[c].status = "rejected"
       /\ \A i \in Instances, u \in Users : connectedUsers[i][u] # c
       /\ rooms[c] = {}
       /\ inbox[c] = <<>>
       /\ \A k \in 1..Len(pending) : pending[k].conn # c

\* a connection with a token that does not verify was refused while another
\* connection was served
C1_Witness ==
  \E c, d \in Conn :
    /\ conns[c].status = "rejected"
    /\ HandshakeToken(conns[c].hs).kind = "bad"
    /\ Connected(d)
    /\ inbox[d] # <<>>

\* content that is empty, only blanks, or longer than the limit
InvalidContent(x) ==
  \/ \A k \in 1..Len(x) : x[k].c = " "
  \/ CLen(x) > MaxContentLength

\* C3: send_message with empty, blank or over-long content gives exactly one
\* error event to the calling connection and changes nothing else: nothing
\* is stored, nothing is published, no call is started and no other
\* connection receives anything.
C3_InvalidContentOnlyError ==
  [][\A c \in Conn, r \in GateRooms, x \in GateContents :
       (InvalidContent(x) /\ SendMessage(GateLimits, c, r, x, "text")) =>
          /\ Len(inbox'[c]) = Len(inbox[c]) + 1
          /\ SubSeq(inbox'[c], 1, Len(inbox[c])) = inbox[c]
          /\ inbox'[c][Len(inbox'[c])].type = "error"
          /\ \A d \in Conn \ {c} : inbox'[d] = inbox[d]
          /\ UNCHANGED <<store, cache, published, subq, pending, rooms, last>>]_vars

\* an over-long message was refused and nothing was stored or published
C3_Witness ==
  \E c \in Conn :
    /\ Len(inbox[c]) = 1
    /\ inbox[c][1].type = "error"
    /\ inbox[c][1].text = "Message too long (max 1000 characters)"
    /\ store = <<>>
    /\ published = <<>>
    /\ pending = <<>>

\* C9: join_room with room type qa_chat for the room qa_<journey>_<asker>
\* does not make a member of a user who is neither the asker nor the creator
\* of the journey.
C9_QaRoomThirdPartyDenied ==
  [][\A c \in Conn :
       (/\ Connected(c)
        /\ conns[c].user \notin {U2, journeyCreator[J1]}
        /\ JoinRoom(GateLimits, c, QaRoomOfU2, "qa_chat")) =>
          QaRoomOfU2 \notin rooms'[c]]_vars

\* ------------------------------------------------------------------------
\* Properties of the fan-out of a sent message (SpecSend)
\* ------------------------------------------------------------------------
\* how many new_message events for message m a client has received
NewMessages(box, m) ==
  Cardinality({k \in 1..Len(box) : box[k].type = "new_message" /\ box[k].msg = m})

\* the connections that are members of a room, on whatever instance
Members(ch) == {c \in Conn : Connected(c) /\ ch \in rooms[c]}

NeverTwice ==
  \A c \in Conn, m \in 1..MaxMsgs : NewMessages(inbox[c], m) <= 1

\* C2 as stated: when a valid send_message has been saved, every member of
\* the room at broadcast time, the sender included, has received new_message
\* for the saved message exactly once.
C2_EveryMemberExactlyOnce ==
  /\ [][\A i \in 1..Len(pending) :
          (pending[i].handler = "send_message" /\ Service_return(i)) =>
             \A c \in Members(pending[i].room) :
               NewMessages(inbox'[c], pending[i].msg) = 1]_vars
  /\ []NeverTwice

\* C2 (amended): when saveMessage has returned the saved message of a valid
\* send_message, every member of the room that is connected to the instance
\* that handled the send, the sender included, has received new_message for
\* it exactly once; members connected to another instance receive none, and
\* nobody ever receives it twice.
C2_LocalMembersExactlyOnce ==
  /\ [][\A i \in 1..Len(pending) :
          (pending[i].handler = "send_message" /\ Service_return(i)) =>
             \A c \in Members(pending[i].room) :
               NewMessages(inbox'[c], pending[i].msg) =
                 (IF conns[c].inst = pending[i].inst THEN 1 ELSE 0)]_vars
  /\ []NeverTwice

\* two members on one instance have both received the message, and every
\* subscriber has handled the published event
C2_Witness ==
  \E c, d \in Conn :
    /\ c # d
    /\ conns[c].inst = conns[d].inst
    /\ {c, d} \subseteq Members(StarRoom)
    /\ NewMessages(inbox[c], 1) = 1
    /\ NewMessages(inbox[d], 1) = 1
    /\ published # <<>>
    /\ \A i \in Instances : subq[i] = <<>>

\* ------------------------------------------------------------------------
\* Properties of edit, delete and history, one call at a time (SpecEdit)
\* ------------------------------------------------------------------------
\* ChatController.editMessage: the status the HTTP caller gets for an error
editHttpStatus(err) ==
  CASE err = "Message not found"               -> 404
    [] err = "Can only edit your own messages" -> 403
    [] OTHER                                   -> 500

\* what getChatHistory would answer now: the cached page, else the stored one
HistoryAnswer(chatRoom, page, limit) ==
  LET key == HistoryKey(chatRoom, page, limit)
      ids == PageOf(chatRoom, page, limit)
  IN IF key \in DOMAIN cache THEN cache[key]
     ELSE JsonResult([messages |-> [k \in 1..Len(ids) |-> Snapshot(ids[k])],
                      pagination |-> Pagination(page, limit, Len(Visible(chatRoom)))])

Histories == [q \in Pages \X PageSizes |-> HistoryAnswer(ServiceRoom, q[1], q[2])]

\* C4: editMessage called by a user who is not the sender of the message
\* fails, with the forbidden error (HTTP status 403) unless the lookup itself
\* failed, and changes neither the stored message (content, originalContent,
\* editedAt) nor what any history page of the room answers.
C4_NonSenderEditRefused ==
  [][\A i \in 1..Len(pending) :
       (/\ pending[i].kind = "editMessage"
        /\ Exists(pending[i].msg)
        /\ store[pending[i].msg].sender # pending[i].user
        /\ EditMessage_find(i)) =>
          /\ Len(pending') = Len(pending) - 1
          /\ last'[1].kind = "editMessage" /\ ~last'[1].ok
          /\ last'[1].err \in {"Can only edit your own messages", "storage"}
          /\ editHttpStatus(last'[1].err) \in {403, 500}
          /\ store' = store
          /\ Histories' = Histories]_vars

\* a refused edit by a non-sender, then a history read that still shows the
\* message as it was sent
C4_Witness ==
  /\ last[2].kind = "editMessage"
  /\ last[2].err = "Can only edit your own messages"
  /\ editHttpStatus(last[2].err) = 403
  /\ last[1].kind = "getChatHistory" /\ last[1].ok
  /\ \E k \in 1..Len(last[1].value[1].messages) :
       LET e == last[1].value[1].messages[k]
       IN e.id = last[2].msg /\ e.doc.content = TextA /\ e.doc.editedAt.t = 0

\* C5: a history read never returns a message that is soft-deleted in the
\* store when the read returns.
C5_HistoryHidesDeleted ==
  [][\A i \in 1..Len(pending) :
       (pending[i].kind = "getChatHistory" /\ Service_return(i)) =>
          \A k \in 1..Len(pending[i].out[1].messages) :
            ~store[pending[i].out[1].messages[k].id].isDeleted]_vars

\* C6: the edit that is the first successful one of a message stores the
\* content the message had just before it as originalContent, every later
\* edit leaves originalContent as it is, and once set nothing changes it.
C6_OriginalContentKept ==
  /\ [][\A i \in 1..Len(pending) :
          (pending[i].kind = "editMessage" /\ Document_save(i) /\ store' # store) =>
             LET cur == store[pending[i].msg]
             IN store'[pending[i].msg].originalContent =
                  (IF cur.editedAt.t = 0 THEN <<cur.content>> ELSE cur.originalContent)]_vars
  /\ [][\A m \in 1..Len(store) :
          store[m].originalContent # <<>> =>
             store'[m].originalContent = store[m].originalContent]_vars

\* the only message was sent as TextA and edited twice: originalContent is
\* still what was sent
C6_Witness ==
  /\ Len(store) = 1
  /\ ~store[1].isDeleted
  /\ store[1].editedAt.t = 2
  /\ last[1].kind = "editMessage" /\ last[1].ok
  /\ last[2].kind = "editMessage" /\ last[2].ok
  /\ last[2].content # TextA
  /\ store[1].originalContent = <<TextA>>

\* ------------------------------------------------------------------------
\* Properties of reactions, one call at a time (SpecReact)
\* ------------------------------------------------------------------------
\* the emojis of the reaction entries a user has on a message, in order
UserReactions(d, u) ==
  LET mine == SelectSeq(d.reactions, LAMBDA r : r.user = u)
  IN [k \in 1..Len(mine) |-> mine[k].emoji]

ReactionKinds == {"addReaction", "removeReaction"}

\* C7: with reaction calls executed one after the other, a message never has
\* two reaction entries of one user; a successful addReaction leaves the
\* user's single entry with the emoji of that call, a successful
\* removeReaction leaves the user without an entry, neither touches the
\* reactions of other users, and nothing else changes reactions.
C7_OneReactionPerUser ==
  /\ [](\A m \in 1..Len(store), u \in ServiceUsers :
          Len(UserReactions(store[m], u)) <= 1)
  /\ [][\A i \in 1..Len(pending) :
          (/\ pending[i].kind \in ReactionKinds
           /\ Document_save(i)
           /\ Len(pending') = Len(pending)) =>
             LET op == pending[i]
             IN /\ UserReactions(store'[op.msg], op.user) =
                     (IF op.kind = "addReaction" THEN <<op.emoji>> ELSE <<>>)
                /\ \A u \in ServiceUsers \ {op.user} :
                     UserReactions(store'[op.msg], u) = UserReactions(store[op.msg], u)
                /\ \A m \in (1..Len(store)) \ {op.msg} : store'[m] = store[m]]_vars
  /\ [][\A m \in 1..Len(store) :
          store'[m].reactions # store[m].reactions =>
             \E i \in 1..Len(pending) :
               /\ pending[i].kind \in ReactionKinds
               /\ pending[i].msg = m
               /\ Document_save(i)]_vars

\* a user reacted twice to one message with different emojis and holds one
\* entry with the second emoji
C7_Witness ==
  /\ last[1].kind = "addReaction" /\ last[1].ok
  /\ last[2].kind = "addReaction" /\ last[2].ok
  /\ last[1].msg = last[2].msg
  /\ last[1].user = last[2].user
  /\ last[1].emoji # last[2].emoji
  /\ UserReactions(store[last[1].msg], last[1].user) = <<last[1].emoji>>

\* ------------------------------------------------------------------------
\* Properties of read receipts, one call at a time (SpecRead)
\* ------------------------------------------------------------------------
SameCall(o, op) ==
  /\ o.kind = op.kind
  /\ o.room = op.room
  /\ o.user = op.user
  /\ o.ids = op.ids

\* C8: markMessagesAsRead called again right after a successful call with
\* the same room, user and messageIds (the empty list meaning every message
\* of the room) leaves the read receipts as they were and reports a marked
\* count of 0; no message ever has two receipts of one user.
C8_MarkReadIdempotent ==
  /\ [](\A m \in 1..Len(store), u \in ServiceUsers :
          Cardinality({k \in 1..Len(store[m].readBy) : store[m].readBy[k].user = u}) <= 1)
  /\ [][\A i \in 1..Len(pending) :
          (/\ pending[i].kind = "markMessagesAsRead"
           /\ last[1].ok
           /\ SameCall(last[1], pending[i])
           /\ MarkMessagesAsRead_update(i)) =>
             /\ store' = store
             /\ Len(pending') = Len(pending) => pending'[i].out = <<0>>]_vars

\* the same call twice in succession: the first marked a message, the
\* second marked none
C8_Witness ==
  /\ last[2].kind = "markMessagesAsRead" /\ last[2].ok
  /\ last[1].kind = "markMessagesAsRead" /\ last[1].ok
  /\ last[1].room = last[2].room
  /\ last[1].user = last[2].user
  /\ last[1].ids = last[2].ids
  /\ last[2].value[1] >= 1
  /\ last[1].value = <<0>>
  /\ \E m \in 1..Len(store) : last[1].user \in ReadByUsers(store[m])

\* ------------------------------------------------------------------------
\* Properties of the relay and of concurrent sends (SpecSend, SpecGate)
\* ------------------------------------------------------------------------
\* C13: the relay emits nothing when it handles a new_message event; a
\* connection gets new_message for a message only from the send_message
\* handler of its own instance, and only once: members on the handling
\* instance never get it twice, members on the other instance never get it.
C13_NewMessageOnlyLocal ==
  /\ [][\A i \in Instances :
          (subq[i] # <<>> /\ Head(subq[i]).type = "new_message" /\ Relay(i)) =>
             inbox' = inbox]_vars
  /\ [][\A c \in Conn, m \in 1..MaxMsgs :
          NewMessages(inbox'[c], m) > NewMessages(inbox[c], m) =>
             /\ NewMessages(inbox[c], m) = 0
             /\ \E i \in 1..Len(pending) :
                  /\ pending[i].handler = "send_message"
                  /\ pending[i].msg = m
                  /\ pending[i].inst = conns[c].inst
                  /\ Service_return(i)]_vars

\* members of one room on both instances: the one on the sender's instance
\* has the message, the other has not, and both relays have handled the
\* published event
C13_Witness ==
  \E c, d \in Conn :
    /\ conns[c].inst # conns[d].inst
    /\ {c, d} \subseteq Members(StarRoom)
    /\ NewMessages(inbox[c], 1) = 1
    /\ NewMessages(inbox[d], 1) = 0
    /\ \E k \in 1..Len(published) : published[k].message.type = "new_message"
    /\ \A i \in Instances : subq[i] = <<>>

\* C12: an event published to the channel of any room is handed to the
\* relay of every instance that has a backbone client.
C12_SubscriptionCoversAllRooms ==
  [][Len(published') > Len(published) =>
       \A i \in Instances :
         client[i] # "none" => subq'[i] = Append(subq[i], published'[Len(published')].message)]_vars

\* the positions of a client's inbox that hold new_message events of a room
NewMessagePositions(box, ch) ==
  {k \in 1..Len(box) : box[k].type = "new_message" /\ box[k].room = ch}

\* C18 as stated: on one instance the new_message broadcasts of a room
\* arrive in the order in which the store writes completed (the order of
\* the documents in the collection).
C18_BroadcastInStoreOrder ==
  \A c \in Conn, ch \in SendRooms :
    \A k, l \in NewMessagePositions(inbox[c], ch) :
      k < l => inbox[c][k].msg < inbox[c][l].msg

\* C18 (amended): the broadcast of a message is delivered, to every member
\* on the instance, after everything delivered before the saveMessage call
\* of that message returned; so any two broadcasts of a room arrive in the
\* order in which their saveMessage calls returned, the same for every
\* member, which need not be the order of the store writes.
C18_BroadcastInReturnOrder ==
  /\ [][\A i \in 1..Len(pending) :
          (pending[i].handler = "send_message" /\ Service_return(i)) =>
             \A c \in InRoom(pending[i].inst, pending[i].room) :
               /\ Len(inbox'[c]) = Len(inbox[c]) + 1
               /\ SubSeq(inbox'[c], 1, Len(inbox[c])) = inbox[c]
               /\ inbox'[c][Len(inbox'[c])].type = "new_message"
               /\ inbox'[c][Len(inbox'[c])].msg = pending[i].msg]_vars
  /\ [](\A c, d \in Conn, ch \in SendRooms :
          \A k, l \in NewMessagePositions(inbox[c], ch) :
            \A x, y \in NewMessagePositions(inbox[d], ch) :
              (/\ conns[c].inst = conns[d].inst
               /\ inbox[c][k].msg = inbox[d][x].msg
               /\ inbox[c][l].msg = inbox[d][y].msg
               /\ k < l) => x < y)

\* two concurrent sends: a member has both broadcasts, the one of the
\* message stored second first
C18_Witness ==
  \E c \in Conn :
    \E k, l \in NewMessagePositions(inbox[c], StarRoom) :
      k < l /\ inbox[c][k].msg = 2 /\ inbox[c][l].msg = 1

\* ------------------------------------------------------------------------
\* The service with a backbone that is there, is absent, or stops answering
\* ------------------------------------------------------------------------
\* the connection of instance i to redis is lost: from now on every call fails
BackboneFails(i) ==
  /\ client[i] = "up"
  /\ client' = [client EXCEPT ![i] = "failing"]
  /\ UNCHANGED <<conns, connectedUsers, rooms, inbox, store, cache, published,
                 subq, pending, clock, ops, last, probe, proc>>

MaxBackboneOps == 4
BackboneLimits == [ops |-> MaxBackboneOps, pending |-> 1]

InitBackbone ==
  /\ InitState
  /\ client \in {AllClients("up"), AllClients("none")}
  /\ probe = NoProbe

BackboneSteps(i) ==
  \/ SaveMessage_save(i)
  \/ SaveMessage_publish(i)
  \/ EditMessage_find(i)
  \/ DeleteMessage_find(i)
  \/ AddReaction_find(i)
  \/ RemoveReaction_find(i)
  \/ Document_save(i)
  \/ MarkMessagesAsRead_update(i)
  \/ Service_invalidate(i)
  \/ Service_publish(i)
  \/ GetChatHistory_cacheGet(i)
  \/ GetChatHistory_find(i)
  \/ GetChatHistory_cacheSet(i)
  \/ Service_return(i)

NextBackbone ==
  \/ CallSaveMessage(BackboneLimits, "A", SocketMessageData(U1, ServiceRoom, TextA, "text"))
  \/ \E m \in 1..MaxMsgs : CallEditMessage(BackboneLimits, "A", m, U1, TextB)
  \/ \E m \in 1..MaxMsgs : CallDeleteMessage(BackboneLimits, "A", m, U1)
  \/ \E m \in 1..MaxMsgs : CallAddReaction(BackboneLimits, "A", m, U1, "heart")
  \/ \E m \in 1..MaxMsgs : CallRemoveReaction(BackboneLimits, "A", m, U1)
  \/ CallMarkMessagesAsRead(BackboneLimits, "A", ServiceRoom, U2, {})
  \/ \E n \in PageSizes : CallGetChatHistory(BackboneLimits, "A", ServiceRoom, 1, n)
  \/ BackboneFails("A")
  \/ \E i \in 1..Len(pending) : BackboneSteps(i)

SpecBackbone == InitBackbone /\ [][NextBackbone]_vars

\* the history cache keys of a room
RoomHistoryKeys(chatRoom) ==
  {HistoryKey(chatRoom, p, n) : p \in Pages, n \in PageSizes}

\* C20: with the cache answering, when editMessage, deleteMessage,
\* addReaction, removeReaction or markMessagesAsRead returns successfully, no
\* history cache entry of the message's room is left.
C20_MutationClearsRoomCache ==
  [][\A i \in 1..Len(pending) :
       (/\ pending[i].kind \in Invalidating
        /\ client[pending[i].inst] = "up"
        /\ Service_return(i)) =>
          RoomHistoryKeys(pending[i].room) \cap DOMAIN cache' = {}]_vars

\* the backbone of an instance cannot be used
Down(i) == client[i] \in {"none", "failing"}

\* what reading the store gives for a history page
StoreRead(chatRoom, page, limit) ==
  LET ids == PageOf(chatRoom, page, limit)
  IN [messages |-> [k \in 1..Len(ids) |-> Snapshot(ids[k])],
      pagination |-> Pagination(page, limit, Len(Visible(chatRoom)))]

\* the stage a call is in after its backbone step
AfterBackboneStep(stage) ==
  CASE stage = "cacheGet"   -> "find"
    [] stage = "cacheSet"   -> "return"
    [] stage = "invalidate" -> "publish"
    [] stage = "publish"    -> "return"
    [] OTHER                -> ""

MaxRaceOps == 3
MaxRacePending == 2
RaceLimits == [ops |-> MaxRaceOps, pending |-> MaxRacePending]

RaceSteps(i) ==
  \/ SaveMessage_save(i)
  \/ SaveMessage_publish(i)
  \/ AddReaction_find(i)
  \/ Document_save(i)
  \/ Service_invalidate(i)
  \/ Service_publish(i)
  \/ Service_return(i)

NextRace ==
  \/ CallSaveMessage(RaceLimits, "A", SocketMessageData(U1, ServiceRoom, TextA, "text"))
  \/ \E m \in 1..MaxMsgs, e \in Emojis : CallAddReaction(RaceLimits, "A", m, U2, e)
  \/ \E i \in 1..Len(pending) : RaceSteps(i)

SpecRace == InitService /\ [][NextRace]_vars

\* C19: whatever the interleaving of addReaction calls of one user on one
\* message, once no reaction call is in progress the message holds at most
\* one reaction entry of that user.
C19_ConcurrentAddOneEntry ==
  (\A i \in 1..Len(pending) : pending[i].kind # "addReaction") =>
    \A m \in 1..Len(store) : Len(UserReactions(store[m], U2)) <= 1

\* ------------------------------------------------------------------------
\* One message sent over HTTP or over the socket
\* ------------------------------------------------------------------------
MaxParityOps == 3
ParityLimits == [ops |-> MaxParityOps, pending |-> 1]

UnknownJourneyRoom == JourneyPrefix \o <<"x">>
ParityRooms == {JourneyRoom(J1), UnknownJourneyRoom, ExampleLocationRoom, <<>>}
ParityContents == {Empty, Blank, PaddedA, TooLong, PaddedLong}

ParitySteps(i) ==
  \/ SaveMessage_save(i)
  \/ SaveMessage_publish(i)
  \/ GetChatHistory_cacheGet(i)
  \/ GetChatHistory_find(i)
  \/ GetChatHistory_cacheSet(i)
  \/ Service_return(i)

NextParity ==
  \/ \E c \in Conn : Connect(c, "A", Handshake(GoodToken(U2), NoToken))
  \/ \E c \in Conn : JoinRoom(ParityLimits, c, JourneyRoom(J1), "group_planning")
  \/ \E c \in Conn, r \in ParityRooms, x \in ParityContents :
       SendMessage(ParityLimits, c, r, x, "text")
  \/ \E r \in ParityRooms, x \in ParityContents :
       HttpSendMessage(ParityLimits, "A", U2, r, x, "text")
  \/ \E i \in 1..Len(pending) : ParitySteps(i)

SpecParity == InitService /\ [][NextParity]_vars

\* the send_message handler accepts the input and save() stores it
SocketAccepts(userId, roomId, content, messageType) ==
  /\ ContentError(content) = ""
  /\ SchemaValid(NewMessage(SocketMessageData(userId, roomId, content, messageType)))

HttpRejections ==
  {"Room ID and content are required", "Message content cannot be empty",
   "Message cannot exceed 1000 characters"}

\* C15: the HTTP send does what send_message does for the same user, room id,
\* content and kind: every stored message has the fields the socket path
\* stores (journey reference and coordinates included); an input the HTTP
\* path stores is one the socket path stores and an input the HTTP path
\* answers 400 to is one the socket path refuses; and when the HTTP send
\* returns the saved message, the connected members of the room have
\* received new_message for it.
C15_HttpSendEquivalent ==
  /\ [](\A m \in 1..Len(store) :
          store[m] = NewMessage(SocketMessageData(store[m].sender, store[m].chatRoom,
                                                  store[m].content, store[m].messageType)))
  /\ []((last[1].kind = "saveMessage" /\ last[1].ok) =>
          SocketAccepts(last[1].user, last[1].room, last[1].content, "text"))
  /\ []((last[1].kind = "saveMessage" /\ last[1].err \in HttpRejections) =>
          ~SocketAccepts(last[1].user, last[1].room, last[1].content, "text"))
  /\ [][\A i \in 1..Len(pending) :
          (/\ pending[i].kind = "saveMessage"
           /\ pending[i].handler = None
           /\ Service_return(i)) =>
             \A c \in Members(pending[i].room) :
               NewMessages(inbox'[c], pending[i].msg) = 1]_vars

\* ------------------------------------------------------------------------
\* Members of a room changing its messages over their sockets
\* ------------------------------------------------------------------------
MaxHandlerOps == 3
HandlerLimits == [ops |-> MaxHandlerOps, pending |-> 1]

InitHandlers ==
  /\ InitState
  /\ client = AllClients("up")
  /\ probe = NoProbe

NextHandlers ==
  \/ \E c \in Conn, i \in Instances, hs \in SendHandshakes : Connect(c, i, hs)
  \/ \E c \in Conn : JoinRoom(HandlerLimits, c, StarRoom, "direct")
  \/ \E c \in Conn : SendMessage(HandlerLimits, c, StarRoom, TextA, "text")
  \/ \E c \in Conn, m \in 1..MaxMsgs : AddReaction(HandlerLimits, c, m, "heart")
  \/ \E c \in Conn, m \in 1..MaxMsgs : RemoveReaction(HandlerLimits, c, m)
  \/ \E c \in Conn, m \in 1..MaxMsgs : EditMessage(HandlerLimits, c, m, TextB)
  \/ \E c \in Conn, m \in 1..MaxMsgs : DeleteMessage(HandlerLimits, c, m)
  \/ \E c \in Conn : MarkMessagesRead(HandlerLimits, c, StarRoom, {})
  \/ \E i \in Instances : Relay(i)
  \/ \E i \in 1..Len(pending) : BackboneSteps(i)

SpecHandlers == InitHandlers /\ [][NextHandlers]_vars

\* the room of the channel an event was published on
PublishedRoom(data) ==
  LET k == CHOOSE k \in 1..Len(published) : published[k].message = data
  IN Drop(published[k].channel, Len(ChatChannelPrefix))

\* C11: when the relay of an instance handles the published event of a
\* reaction, an edit, a deletion or a read receipt, every member of the
\* room on that instance, the actor included, receives the corresponding
\* client event for that message.
C11_RelayTurnsEventsIntoClientEvents ==
  [][\A i \in Instances :
       (/\ subq[i] # <<>>
        /\ RelayedType(Head(subq[i]).type) # ""
        /\ Relay(i)) =>
          LET data == Head(subq[i])
          IN \A c \in InRoom(i, PublishedRoom(data)) :
               /\ Len(inbox'[c]) = Len(inbox[c]) + 1
               /\ inbox'[c][Len(inbox'[c])].type = RelayedType(data.type)
               /\ inbox'[c][Len(inbox'[c])].msg = data.messageId]_vars

\* C17: when the service call of a handler fails, the calling connection
\* receives one more event, an error, and no other connection receives
\* anything; for every handler, mark_messages_read included.
C17_FailureAnsweredToCallerOnly ==
  [][\A i \in 1..Len(pending) :
       (/\ pending[i].handler # None
        /\ pending[i].stage # "return"
        /\ Connected(pending[i].conn)
        /\ pending' = RemoveAt(pending, i)) =>
          LET c == pending[i].conn
          IN /\ Len(inbox'[c]) = Len(inbox[c]) + 1
             /\ inbox'[c][Len(inbox'[c])].type = "error"
             /\ \A d \in Conn \ {c} : inbox'[d] = inbox[d]]_vars

\* ------------------------------------------------------------------------
\* Clients sending events without a payload
\* ------------------------------------------------------------------------
MaxCrashOps == 3
CrashLimits == [ops |-> MaxCrashOps, pending |-> 1]

NextCrash ==
  \/ \E c \in Conn, i \in Instances, hs \in SendHandshakes : Connect(c, i, hs)
  \/ \E c \in Conn : JoinRoom(CrashLimits, c, ServiceRoom, "group_planning")
  \/ \E c \in Conn : LeaveRoom(CrashLimits, c, ServiceRoom)
  \/ \E c \in Conn, t \in BOOLEAN : Typing(CrashLimits, c, ServiceRoom, t)
  \/ \E c \in Conn : SendMessage(CrashLimits, c, ServiceRoom, TextA, "text")
  \/ \E c \in Conn, h \in Handlers : MissingPayload(CrashLimits, c, h)
  \/ \E i \in Instances : ProcessExit(i)
  \/ \E i \in 1..Len(pending) : Steps(i)

SpecCrash == InitHandlers /\ [][NextCrash]_vars

\* C16: an event without a payload, for whichever handler, and a failing
\* service call of a handler leave every connection, every room membership
\* and the process as they were; no process ever stops and no connection is
\* ever closed by the server.
C16_HandlerFailureNotFatal ==
  /\ [][\A c \in Conn, h \in Handlers :
          MissingPayload(CrashLimits, c, h) =>
            (proc' = proc /\ conns' = conns /\ rooms' = rooms)]_vars
  /\ [][\A i \in 1..Len(pending) :
          (/\ pending[i].handler # None
           /\ pending[i].stage # "return"
           /\ pending' = RemoveAt(pending, i)) =>
             (proc' = proc /\ conns' = conns /\ rooms' = rooms)]_vars
  /\ [](\A i \in Instances : proc[i] = "running")
  /\ [](\A c \in Conn : conns[c].status # "closed")

\* ------------------------------------------------------------------------
\* Properties of join_room (SpecGate)
\* ------------------------------------------------------------------------
\* the join_room call that returns in this step answers with chat_history
\* to the joining connection and with user_joined to the connections in to
JoinAnswers(i, to) ==
  LET op == pending[i]
      c  == op.conn
  IN /\ Connected(c) =>
          /\ Len(inbox'[c]) = Len(inbox[c]) + 1
          /\ SubSeq(inbox'[c], 1, Len(inbox[c])) = inbox[c]
          /\ inbox'[c][Len(inbox'[c])].type = "chat_history"
     /\ \A d \in Conn \ {c} :
          IF d \in to
          THEN /\ Len(inbox'[d]) = Len(inbox[d]) + 1
               /\ SubSeq(inbox'[d], 1, Len(inbox[d])) = inbox[d]
               /\ inbox'[d][Len(inbox'[d])].type = "user_joined"
               /\ inbox'[d][Len(inbox'[d])].user = op.user
          ELSE inbox'[d] = inbox[d]

\* a denied join_room answers the caller with one error and does nothing
\* else; a granted one sends nothing before the history is loaded
JoinRequestFrame ==
  [][\A c \in Conn, r \in GateRooms, t \in GateRoomTypes :
       JoinRoom(GateLimits, c, r, t) =>
         IF ~validateRoomAccess(conns[c].user, r, t)
         THEN /\ Len(inbox'[c]) = Len(inbox[c]) + 1
              /\ inbox'[c][Len(inbox'[c])].type = "error"
              /\ \A d \in Conn \ {c} : inbox'[d] = inbox[d]
              /\ UNCHANGED <<rooms, pending, store, cache, published, subq>>
         ELSE inbox' = inbox]_vars

\* C21 as stated: a denied join_room gives the caller an error, no
\* membership, and nobody else anything; a granted one gives chat_history
\* to the joining connection only and user_joined to every other member of
\* the room, never to the joining connection.
C21_JoinEventsToAllMembers ==
  /\ JoinRequestFrame
  /\ [][\A i \in 1..Len(pending) :
          (pending[i].handler = "join_room" /\ Service_return(i)) =>
             JoinAnswers(i, Members(pending[i].room))]_vars

\* C21 (amended): as stated, with user_joined going to every other member
\* of the room that is connected to the instance that handled the join;
\* members connected to another instance receive nothing.
C21_JoinEventsToLocalMembers ==
  /\ JoinRequestFrame
  /\ [][\A i \in 1..Len(pending) :
          (pending[i].handler = "join_room" /\ Service_return(i)) =>
             JoinAnswers(i, InRoom(pending[i].inst, pending[i].room))]_vars

\* on one instance a member got user_joined from a connection that joined
\* after it and got chat_history only
C21_Witness ==
  \E c, d \in Conn :
    /\ c # d
    /\ conns[c].inst = conns[d].inst
    /\ {c, d} \subseteq Members(QaRoomOfU2)
    /\ Len(inbox[d]) = 1
    /\ inbox[d][1].type = "chat_history"
    /\ Len(inbox[c]) = 2
    /\ inbox[c][2].type = "user_joined"
    /\ inbox[c][2].user = conns[d].user

\* ------------------------------------------------------------------------
\* The history a joining connection is sent (SpecParity)
\* ------------------------------------------------------------------------
\* C22: the chat_history event of a join_room carries the most recent
\* non-deleted messages that are in the store for the room when the join
\* is answered (at most 20, all of them if fewer), oldest first, the ones
\* saved just before the join included.
C22_JoinHistoryIsCurrent ==
  [][\A i \in 1..Len(pending) :
       (/\ pending[i].handler = "join_room"
        /\ Connected(pending[i].conn)
        /\ Service_return(i)) =>
          LET box == inbox'[pending[i].conn]
          IN /\ box[Len(box)].type = "chat_history"
             /\ box[Len(box)].body =
                  PageOf(pending[i].room, JoinHistoryPage, JoinHistoryLimit)]_vars

\* ------------------------------------------------------------------------
\* Mutations by the sender and by somebody else, one call at a time
\* ------------------------------------------------------------------------
MaxMutateOps == 4
MutateLimits == [ops |-> MaxMutateOps, pending |-> 1]

NextMutate ==
  \/ CallSaveMessage(MutateLimits, "A", SocketMessageData(U1, ServiceRoom, TextA, "text"))
  \/ \E m \in 1..MaxMsgs, u \in ServiceUsers : CallEditMessage(MutateLimits, "A", m, u, TextB)
  \/ \E m \in 1..MaxMsgs, u \in ServiceUsers : CallDeleteMessage(MutateLimits, "A", m, u)
  \/ \E m \in 1..MaxMsgs : CallAddReaction(MutateLimits, "A", m, U2, "heart")
  \/ \E m \in 1..MaxMsgs : CallRemoveReaction(MutateLimits, "A", m, U2)
  \/ CallGetChatHistory(MutateLimits, "A", ServiceRoom, 1, JoinHistoryLimit)
  \/ \E i \in 1..Len(pending) : BackboneSteps(i)

SpecMutate == InitBackbone /\ [][NextMutate]_vars

RefusedErrors ==
  {"Message not found", "Can only edit your own messages",
   "Can only delete your own messages"}

\* the steps of a mutation, in the order the service takes them
MutationOrder ==
  {<<"find", "save">>, <<"save", "invalidate">>, <<"invalidate", "publish">>,
   <<"publish", "return">>}

\* a refused mutation changes nothing; a mutation that goes on takes its
\* steps in order, only the store write changes the store, only the
\* invalidation changes the cache, only the publish adds to the published
\* events; and a call returns successfully only after the publish step
MutationFrame ==
  /\ [][(last'[1] # last[1] /\ last'[1].kind \in Mutations /\ last'[1].err \in RefusedErrors) =>
          UNCHANGED <<store, cache, published, subq, inbox>>]_vars
  /\ [][\A i \in 1..Len(pending) :
          (/\ pending[i].kind \in Mutations
           /\ Len(pending') = Len(pending)
           /\ pending'[i] # pending[i]) =>
             LET from == pending[i].stage
                 to   == pending'[i].stage
             IN /\ <<from, to>> \in MutationOrder
                /\ from # "save" => store' = store
                /\ from # "invalidate" => cache' = cache
                /\ from # "publish" => published' = published]_vars
  /\ [][\A i \in 1..Len(pending) :
          (pending[i].kind \in Mutations /\ Len(pending') < Len(pending)) =>
             /\ UNCHANGED <<store, cache, published, subq, inbox>>
             /\ last'[1].ok <=> pending[i].stage = "return"]_vars

\* C23 as stated: an editMessage, deleteMessage, addReaction or
\* removeReaction that fails with message-not-found or forbidden leaves the
\* store, the cache, the published events and every client's events as
\* they were; a successful one writes the store, then invalidates the
\* cache, then publishes, and exactly one event is published.
C23_SuccessPublishesOneEvent ==
  /\ MutationFrame
  /\ [][\A i \in 1..Len(pending) :
          (pending[i].kind \in Mutations /\ Service_publish(i)) =>
             Len(published') = Len(published) + 1]_vars

\* C23 (amended): as stated, with exactly one event published when the
\* backbone takes the publish and none when it does not; the call succeeds
\* either way.
C23_SuccessPublishesAtMostOneEvent ==
  /\ MutationFrame
  /\ [][\A i \in 1..Len(pending) :
          (pending[i].kind \in Mutations /\ Service_publish(i)) =>
             Len(published') = Len(published) +
               (IF client[pending[i].inst] = "up" THEN 1 ELSE 0)]_vars

\* a forbidden delete by somebody else changed nothing, then the sender's
\* edit was stored and published as one event after the new_message
C23_Witness ==
  /\ last[2].err = "Can only delete your own messages"
  /\ last[1].kind = "editMessage" /\ last[1].ok
  /\ store[last[1].msg].content = TextB
  /\ Len(published) = 2
  /\ published[2].message.type = "message_edited"

\* ------------------------------------------------------------------------
\* Read receipts with two calls in progress at a time
\* ------------------------------------------------------------------------
MaxReadRaceOps == 4
MaxReadRacePending == 2
ReadRaceLimits == [ops |-> MaxReadRaceOps, pending |-> MaxReadRacePending]

ReadRaceSteps(i) ==
  \/ SaveMessage_save(i)
  \/ SaveMessage_publish(i)
  \/ MarkMessagesAsRead_updateOne(i)
  \/ Service_invalidate(i)
  \/ Service_publish(i)
  \/ Service_return(i)

NextReadRace ==
  \/ CallSaveMessage(ReadRaceLimits, "A", SocketMessageData(U1, ServiceRoom, TextA, "text"))
  \/ \E u \in ServiceUsers, ids \in {{}, {1}} :
       CallMarkMessagesAsRead(ReadRaceLimits, "A", ServiceRoom, u, ids)
  \/ \E i \in 1..Len(pending) : ReadRaceSteps(i)

SpecReadRace == InitHandlers /\ [][NextReadRace]_vars

Receipts(d, u) == {k \in 1..Len(d.readBy) : d.readBy[k].user = u}

\* C24: whatever the interleaving of markMessagesAsRead calls, a message
\* never has two read receipts of one user, a receipt once written stays
\* where and as it is, each write of a call adds one receipt of the calling
\* user to one message of the room that had none, and when the update of a
\* call with an empty list is through, every message of the room has the
\* user's receipt.
C24_ReceiptsAppendOnlyFirstWins ==
  /\ [](\A m \in 1..Len(store), u \in ServiceUsers :
          Cardinality(Receipts(store[m], u)) <= 1)
  /\ [][\A m \in 1..Len(store) :
          /\ Len(store'[m].readBy) >= Len(store[m].readBy)
          /\ SubSeq(store'[m].readBy, 1, Len(store[m].readBy)) = store[m].readBy]_vars
  /\ [][\A i \in 1..Len(pending) :
          (/\ pending[i].kind = "markMessagesAsRead"
           /\ MarkMessagesAsRead_updateOne(i)
           /\ store' # store) =>
             \E m \in 1..Len(store) :
               /\ store[m].chatRoom = pending[i].room
               /\ pending[i].user \notin ReadByUsers(store[m])
               /\ pending[i].ids = {} \/ m \in pending[i].ids
               /\ ReadByUsers(store'[m]) = ReadByUsers(store[m]) \cup {pending[i].user}
               /\ \A k \in (1..Len(store)) \ {m} : store'[k] = store[k]]_vars
  /\ [][\A i \in 1..Len(pending) :
          (/\ pending[i].kind = "markMessagesAsRead"
           /\ pending[i].ids = {}
           /\ MarkMessagesAsRead_updateOne(i)
           /\ Len(pending') = Len(pending)
           /\ pending'[i].stage = "invalidate") =>
             \A m \in 1..Len(store) :
               store[m].chatRoom = pending[i].room =>
                 pending[i].user \in ReadByUsers(store[m])]_vars

\* two calls of one user are updating at the same time: one has marked the
\* first message, the other has not started, and a second message is there
C24_Witness ==
  \E i, j \in 1..Len(pending) :
    /\ i # j
    /\ pending[i].kind = "markMessagesAsRead" /\ pending[i].stage = "update"
    /\ pending[j].kind = "markMessagesAsRead" /\ pending[j].stage = "update"
    /\ pending[i].user = pending[j].user
    /\ pending[i].msg = 1 /\ pending[j].msg = 0
    /\ Len(store) = 2
    /\ pending[i].user \in ReadByUsers(store[1])

\* ------------------------------------------------------------------------
\* Contents written by sends and edits, over the socket and over HTTP
\* ------------------------------------------------------------------------
MaxContentOps == 3
ContentLimits == [ops |-> MaxContentOps, pending |-> 1]

ExactLimit == RunOf("a", MaxContentLength)
ContentInputs == {Empty, Blank, TextB, ExactLimit, TooLong, PaddedLong}

ContentSteps(i) ==
  \/ SaveMessage_save(i)
  \/ SaveMessage_publish(i)
  \/ EditMessage_find(i)
  \/ Document_save(i)
  \/ Service_invalidate(i)
  \/ Service_publish(i)
  \/ Service_return(i)

NextContent ==
  \/ \E c \in Conn : Connect(c, "A", Handshake(GoodToken(U1), NoToken))
  \/ \E c \in Conn, x \in ContentInputs : SendMessage(ContentLimits, c, ServiceRoom, x, "text")
  \/ \E x \in ContentInputs : HttpSendMessage(ContentLimits, "A", U1, ServiceRoom, x, "text")
  \/ \E c \in Conn, m \in 1..MaxMsgs, x \in ContentInputs : EditMessage(ContentLimits, c, m, x)
  \/ \E m \in 1..MaxMsgs, x \in ContentInputs : HttpEditMessage(ContentLimits, "A", m, U1, x)
  \/ \E i \in 1..Len(pending) : ContentSteps(i)

SpecContent == InitHandlers /\ [][NextContent]_vars

\* C25: every stored message that is not a system message has content of at
\* least one and at most 1000 characters, whether it was written by
\* send_message, by the HTTP send, by edit_message or by the HTTP edit.
C25_StoredContentWithinLimit ==
  \A m \in 1..Len(store) :
    store[m].messageType # "system" =>
      (CLen(store[m].content) >= 1 /\ CLen(store[m].content) <= 1000)

\* a message was edited over the socket to a content of exactly the limit,
\* and the same connection then had an edit refused
C25_Witness ==
  \E c \in Conn, m \in 1..Len(store) :
    /\ store[m].content = ExactLimit
    /\ store[m].originalContent # <<>>
    /\ inbox[c] # <<>>
    /\ inbox[c][Len(inbox[c])].text = "Failed to edit message"

\* ------------------------------------------------------------------------
\* Presence: several connections of one user, and notifications
\* ------------------------------------------------------------------------
MaxPresenceOps == 3
PresenceLimits == [ops |-> MaxPresenceOps, pending |-> 1]

NextPresence ==
  \/ \E c \in Conn, i \in Instances, hs \in SendHandshakes : Connect(c, i, hs)
  \/ \E c \in Conn : Disconnect(c)
  \/ \E i \in Instances, u \in {U1, U3} : SendNotificationToUser(PresenceLimits, i, u)

SpecPresence == InitHandlers /\ [][NextPresence]_vars

\* the live connections of user u on instance i
LiveConnections(i, u) ==
  {c \in Conn : Connected(c) /\ conns[c].inst = i /\ conns[c].user = u}

\* C26: when a notification is sent to a user who has a live connection on
\* the instance, the presence map of the instance has the user and every
\* live connection of the user on the instance receives the notification.
C26_LiveUserIsNotified ==
  [][\A i \in Instances, u \in Users :
       (LiveConnections(i, u) # {} /\ SendNotificationToUser(PresenceLimits, i, u)) =>
         /\ connectedUsers[i][u] # 0
         /\ \A c \in LiveConnections(i, u) :
              /\ Len(inbox'[c]) = Len(inbox[c]) + 1
              /\ inbox'[c][Len(inbox'[c])].type = "notification"]_vars

\* ------------------------------------------------------------------------
\* A join_room that ends with an error (SpecGate)
\* ------------------------------------------------------------------------
\* connection c has been sent the history of room r by an earlier join
Admitted(c, r) ==
  \E k \in 1..Len(inbox[c]) : inbox[c][k].type = "chat_history" /\ inbox[c][k].room = r

\* the join_room requests of connection c for room r that await the history
PendingJoins(c, r) ==
  {i \in 1..Len(pending) : /\ pending[i].handler = "join_room"
                           /\ pending[i].conn = c /\ pending[i].room = r}

\* this step answers the only join_room of connection c for room r that is
\* under way with an error: the access check refuses it, or the load of the
\* history throws
JoinEndsWithError(c, r) ==
  \/ /\ PendingJoins(c, r) = {}
     /\ \E t \in GateRoomTypes :
          ~validateRoomAccess(conns[c].user, r, t) /\ JoinRoom(GateLimits, c, r, t)
  \/ \E i \in 1..Len(pending) :
       /\ PendingJoins(c, r) = {i}
       /\ Connected(c)
       /\ pending' = RemoveAt(pending, i)
       /\ inbox'[c] = Append(inbox[c], Event("error", HandlerError("join_room"),
                                            <<>>, 0, <<>>, <<>>))

\* C27: when the only join_room under way of a connection that no earlier
\* join admitted to the room ends with an error event, the connection is
\* not a member of the room after that step.
C27_FailedJoinLeavesNoMembership ==
  [][\A c \in Conn, r \in GateRooms :
       (~Admitted(c, r) /\ JoinEndsWithError(c, r)) => r \notin rooms'[c]]_vars

\* ------------------------------------------------------------------------
\* Who may send into a room: members and connections that never joined
\* ------------------------------------------------------------------------
MaxMemberOps == 3
MemberLimits == [ops |-> MaxMemberOps, pending |-> 1]

NextMember ==
  \/ \E c \in Conn, i \in Instances, hs \in SendHandshakes : Connect(c, i, hs)
  \/ \E c \in Conn : JoinRoom(MemberLimits, c, StarRoom, determineChatType(StarRoom))
  \/ \E c \in Conn : LeaveRoom(MemberLimits, c, StarRoom)
  \/ \E c \in Conn : SendMessage(MemberLimits, c, StarRoom, TextA, "text")
  \/ \E c \in Conn, t \in BOOLEAN : Typing(MemberLimits, c, StarRoom, t)
  \/ \E i \in 1..Len(pending) : Steps(i)

SpecMember == InitHandlers /\ [][NextMember]_vars

\* C28: a send_message is taken for saving and broadcasting only from a
\* connection that is a member of the room, and a user_typing or user_left
\* event reaches the room only from a connection that is a member of it
\* when it makes the request.
C28_OnlyMembersSendToRoom ==
  [][\A c \in Conn :
       /\ SendMessage(MemberLimits, c, StarRoom, TextA, "text") => StarRoom \in rooms[c]
       /\ ((\E t \in BOOLEAN : Typing(MemberLimits, c, StarRoom, t)) /\ inbox' # inbox)
            => StarRoom \in rooms[c]
       /\ (LeaveRoom(MemberLimits, c, StarRoom) /\ inbox' # inbox)
            => StarRoom \in rooms[c]]_vars

\* ------------------------------------------------------------------------
\* The roomType a client sends with join_room (SpecGate)
\* ------------------------------------------------------------------------
\* C29: a join_room is granted exactly when the access rule of the category
\* derived from the room id lets the user in, whatever roomType the client
\* sent, so two requests that differ only in roomType end the same way.
C29_JoinOutcomeIgnoresRoomType ==
  [][\A c \in Conn, r \in GateRooms, t \in GateRoomTypes :
       JoinRoom(GateLimits, c, r, t) =>
         (Len(pending') > Len(pending)
            <=> validateRoomAccess(conns[c].user, r, determineChatType(r)))]_vars

\* ------------------------------------------------------------------------
\* After a soft delete (SpecBackbone)
\* ------------------------------------------------------------------------
\* C30: a message that is soft-deleted stays in the store with its flag
\* set and the tombstone as its content through every later step, and no
\* message ever has the tombstone as its originalContent.
C30_SoftDeleteIsTerminal ==
  [][/\ \A m \in 1..Len(store) :
          store[m].isDeleted =>
            /\ m <= Len(store')
            /\ store'[m].isDeleted
            /\ store'[m].content = Tombstone
     /\ \A m \in 1..Len(store') : store'[m].originalContent # <<Tombstone>>]_vars

============================================================================
